---- MODULE Spec2Model ----
(***************************************************************************)
(* Authentication, token revocation and organization-membership gate of    *)
(* the Konnect Platform API (thilak009/kong-assignment).                    *)
(*                                                                         *)
(* The datastore is the tables blacklist, organizations, memberships,      *)
(* services and service_versions.                                          *)
(* Every HTTP request is a slot of `req` that walks the gin handler chain  *)
(* of routes.SetupRoutes: AuthMiddleware, then OrganizationAccessMiddleware *)
(* on org-scoped routes, then the controller.  Requests interleave at the  *)
(* boundaries of the chain, and the clock advances on its own.             *)
(*                                                                         *)
(* Time is counted in clock units of 30 minutes.                            *)
(***************************************************************************)
EXTENDS Integers, FiniteSets, Sequences, TLC

\* ------------------------------------------------------------------ bounds
MaxTime == 3
MaxTokens == 2
MaxOrgs == 1
MaxEnvLen == 3
MaxLag == 2

\* ------------------------------------------------------- program constants
\* The 60 minute lifetime of a token, in clock units of 30 minutes.
TokenTTL == 2

\* Minutes in one clock unit.
MinutesPerUnit == 30

\* The fallback of TOKEN_CLEANUP_INTERVAL_MINUTES, "60", and the interval
\* StartTokenCleanup takes when the value does not parse or is below 1.
DefaultIntervalEnv == <<"6", "0">>
InvalidIntervalFallback == 1

StatusOK == 200
StatusCreated == 201
StatusNoContent == 204
StatusUnauthorized == 401
StatusForbidden == 403
StatusNotFound == 404
StatusInternalServerError == 500

MsgHeaderRequired == "Authorization header required"
MsgInvalidToken == "Invalid token"
MsgAccessCheckFailed == "Failed to check organization access"
MsgNotAuthorized == "You are not authorized to perform the request"
MsgLogoutFailed == "Failed to logout"
MsgCreateOrgFailed == "Failed to create organization"
MsgDeleteOrgFailed == "Failed to delete organization"
MsgFetchOrgFailed == "Failed to fetch organization"
MsgFetchOrgsFailed == "Failed to fetch organizations"
MsgOrgNotFound == "Organization not found"
MsgServiceNotFound == "Service not found"
MsgGetServiceFailed == "Could not get service"
MsgCreateServiceFailed == "Service could not be created"
MsgUpdateServiceFailed == "Service could not be updated"
MsgDeleteServiceFailed == "Service could not be deleted"
MsgVersionNotFound == "Service version not found"
MsgGetVersionsFailed == "Could not get versions"
MsgGetVersionFailed == "Could not get version"
MsgCreateVersionFailed == "Service version could not be created"
MsgUpdateVersionFailed == "Service version could not be updated"
MsgDeleteVersionFailed == "Service version could not be deleted"
MsgNone == ""

\* ------------------------------------------------------------- universes
Users == {"u1", "u2"}
OrgIds == {"o1", "o2"}
Reqs == {1, 2}

\* The email column of each user's row.
UserEmail == [u \in Users |-> IF u = "u1" THEN "e1" ELSE "e2"]

NoToken ==
    [uid |-> "none", email |-> "none", iat |-> 0, nbf |-> 0, exp |-> 0,
     sig |-> "absent"]

\* Routes of SetupRoutes that the model exercises.  Those in OrgScoped carry
\* an :orgId path parameter and run OrganizationAccessMiddleware.
AuthRoutes == {"logout", "listOrgs"}
OrgRoutes == {"createOrg", "getOrg", "deleteOrg"}
ServiceRoutes ==
    {"createService", "getService", "updateService", "deleteService"}
VersionRoutes ==
    {"createVersion", "listVersions", "getVersion", "updateVersion",
     "deleteVersion"}
OrgScoped == {"getOrg", "deleteOrg"} \cup ServiceRoutes \cup VersionRoutes

\* Path parameters :serviceId and :versionId, and the values a request
\* body takes in the model.  A nil *time.Time is NoTime.
ServiceIds == {"s1", "s2"}
VersionIds == {"v1", "v2"}
VersionStrings == {"1.0.0", "2.0.0"}
NoTime == -1

\* The routes that carry :serviceId and those that carry :versionId.
WithServiceId == (ServiceRoutes \ {"createService"}) \cup VersionRoutes
WithVersionId == {"getVersion", "updateVersion", "deleteVersion"}

\* A bound request body: CreateServiceForm, CreateServiceVersionForm or
\* UpdateServiceVersionForm, with the fields the model follows.
NoForm == [version |-> "", description |-> "", releaseTimestamp |-> NoTime]

\* The well-formed bodies of a route.  A create carries the first
\* description and release time, an update of a service the second
\* description; a PATCH of a version supplies description, release
\* timestamp or both.
FormsOf(route) ==
    IF route = "createService"
    THEN {[NoForm EXCEPT !.description = "d0"]}
    ELSE IF route = "updateService"
    THEN {[NoForm EXCEPT !.description = "d1"]}
    ELSE IF route = "createVersion"
    THEN {[version |-> vs, description |-> "d0", releaseTimestamp |-> 0] :
             vs \in VersionStrings}
    ELSE IF route = "updateVersion"
    THEN {[version |-> "", description |-> d, releaseTimestamp |-> ts] :
             d \in {"", "d1"}, ts \in {NoTime, 1}} \ {NoForm}
    ELSE {NoForm}

\* What a handler holds of the row it loaded when it has loaded none.
NoRow == [id |-> ""]

VARIABLES
    now,            \* the clock read by time.Now()
    issued,         \* tokens handed out by Login
    blacklist,      \* table blacklisted_tokens: rows [hash, uid, exp]
    organizations,  \* table organizations: rows [id, createdBy, deleted]
    memberships,    \* table user_organization_maps: rows [uid, org, deleted]
    services,       \* table services: rows [id, org, description, deleted]
    versions,       \* table service_versions: rows [id, svc, version,
                    \*   description, releaseTimestamp, deleted]
    req,            \* the requests in flight, one record per slot
    loggedOut,      \* tokens whose logout request returned 204
    cleaner,        \* the StartTokenCleanup goroutine: its ticker and loop
    tokenCall       \* the last GenerateToken / ValidateToken call and result

vars == <<now, issued, blacklist, organizations, memberships, services,
          versions, req, loggedOut, cleaner, tokenCall>>

\* ------------------------------------------------------------ TokenService

GenerateToken_EmailAsUserID(userID, email, t1, t2, t3) ==
    [uid |-> email, email |-> email, iat |-> t2, nbf |-> t3,
     exp |-> t1 + TokenTTL, sig |-> "ok"]

\* utils.GenerateToken: the three claims are built from three clock reads,
\* t1 <= t2 <= t3; the signature is over the claims with jwtSecret.
GenerateToken(userID, email, t1, t2, t3) ==
    [uid |-> userID, email |-> email, iat |-> t2, nbf |-> t3,
     exp |-> t1 + TokenTTL, sig |-> "ok"]

\* A token string whose signature does not verify under jwtSecret.
ForgedToken ==
    [uid |-> "u1", email |-> "e1", iat |-> 0, nbf |-> 0,
     exp |-> MaxTime + TokenTTL, sig |-> "bad"]

ValidateToken_NoExpiry(tok, t) ==
    /\ tok.sig = "ok"
    /\ t >= tok.nbf

\* utils.ValidateToken at clock value t: jwt.ParseWithClaims checks the
\* signature, then exp (valid while t is before exp) and nbf (valid from
\* nbf on); iat is not checked by the default validator.
ValidateToken(tok, t) ==
    /\ tok.sig = "ok"
    /\ t < tok.exp
    /\ t >= tok.nbf

\* The claims ValidateToken hands back for a token it accepted.
ParsedClaims(tok) == [UserID |-> tok.uid, Email |-> tok.email]

\* utils.GetTokenClaims: signature only (jwt.WithoutClaimsValidation).
GetTokenClaims(tok) == tok.sig = "ok"

HashToken_ByUser(tok) == <<"sha256", tok.uid>>

\* utils.HashToken: SHA-256 of the raw token string, hex encoded.  The
\* digest is modelled as a tagged value that is distinct for distinct token
\* strings (collision resistance of SHA-256).
HashToken(tok) == <<"sha256", tok>>

\* --------------------------------------------------------- RevocationStore

BlacklistedTokenModel_Create_NoKey(bl, tokenHash, userID, expiresAt, t, dbErr) ==
    IF dbErr
    THEN [bl |-> bl, err |-> TRUE]
    ELSE [bl |-> bl \cup {[hash |-> tokenHash, uid |-> userID,
                           exp |-> expiresAt, createdAt |-> t]},
          err |-> FALSE]

\* BlacklistedTokenModel.Create at clock value t: insert; token_hash is the
\* primary key, so a second row with the same hash is rejected by the
\* datastore.  BeforeCreate stamps the row with the clock.
BlacklistedTokenModel_Create(bl, tokenHash, userID, expiresAt, t, dbErr) ==
    IF dbErr \/ (\E row \in bl : row.hash = tokenHash)
    THEN [bl |-> bl, err |-> TRUE]
    ELSE [bl |-> bl \cup {[hash |-> tokenHash, uid |-> userID,
                           exp |-> expiresAt, createdAt |-> t]},
          err |-> FALSE]

IsBlacklisted_FailClosed(bl, tokenHash, t, dbErr) ==
    IF dbErr THEN TRUE
    ELSE Cardinality({row \in bl : row.hash = tokenHash /\ row.exp > t}) > 0

IsBlacklisted_NoExpiryFilter(bl, tokenHash, t, dbErr) ==
    IF dbErr THEN FALSE
    ELSE Cardinality({row \in bl : row.hash = tokenHash}) > 0

\* BlacklistedTokenModel.IsBlacklisted at clock value t: count of rows with
\* this hash and expires_at > t; a query error is answered false.
IsBlacklisted(bl, tokenHash, t, dbErr) ==
    IF dbErr THEN FALSE
    ELSE Cardinality({row \in bl : row.hash = tokenHash /\ row.exp > t}) > 0

CleanupExpired_Inverted(bl, t, dbErr) ==
    IF dbErr THEN [bl |-> bl, err |-> TRUE]
    ELSE [bl |-> {row \in bl : ~(row.exp >= t)}, err |-> FALSE]

CleanupExpired_KeepBoundary(bl, t, dbErr) ==
    IF dbErr THEN [bl |-> bl, err |-> TRUE]
    ELSE [bl |-> {row \in bl : ~(row.exp < t)}, err |-> FALSE]

\* BlacklistedTokenModel.CleanupExpired at clock value t: delete the rows
\* with expires_at <= t.
CleanupExpired(bl, t, dbErr) ==
    IF dbErr THEN [bl |-> bl, err |-> TRUE]
    ELSE [bl |-> {row \in bl : ~(row.exp <= t)}, err |-> FALSE]

\* --------------------------------------------------------- Membership gate

\* OrganizationModel.IsUserMember: count of live rows (gorm adds
\* deleted_at IS NULL for a model with a DeletedAt field); on a query error
\* the count is left at zero and the error is returned.
IsUserMember(mems, orgID, userID, dbErr) ==
    IF dbErr THEN [isMember |-> FALSE, err |-> TRUE]
    ELSE [isMember |->
              Cardinality({m \in mems : /\ m.org = orgID
                                        /\ m.uid = userID
                                        /\ ~m.deleted}) > 0,
          err |-> FALSE]

\* Outcomes of a two-statement transaction.
TxFaults == {"none", "first", "second", "commit"}

OrganizationModel_Create_NoEnroll(orgs, mems, id, createdBy, fault) ==
    IF fault \in {"first", "second"}
    THEN [orgs |-> orgs, mems |-> mems, err |-> TRUE]
    ELSE IF fault = "commit"
    THEN [orgs |-> orgs, mems |-> mems, err |-> FALSE]
    ELSE [orgs |-> orgs \cup {[id |-> id, createdBy |-> createdBy,
                               deleted |-> FALSE]},
          mems |-> mems,
          err |-> FALSE]

\* OrganizationModel.Create: one transaction inserting the organization row
\* and the creator's membership row.  Either insert failing rolls back and
\* returns the error; the result of tx.Commit() is not inspected.
OrganizationModel_Create(orgs, mems, id, createdBy, fault) ==
    IF fault \in {"first", "second"}
    THEN [orgs |-> orgs, mems |-> mems, err |-> TRUE]
    ELSE IF fault = "commit"
    THEN [orgs |-> orgs, mems |-> mems, err |-> FALSE]
    ELSE [orgs |-> orgs \cup {[id |-> id, createdBy |-> createdBy,
                               deleted |-> FALSE]},
          mems |-> mems \cup {[uid |-> createdBy, org |-> id,
                               deleted |-> FALSE]},
          err |-> FALSE]

SoftDelete(rows, hits) ==
    {IF row \in hits THEN [row EXCEPT !.deleted = TRUE] ELSE row : row \in rows}

OrganizationModel_Delete_KeepMembers(orgs, mems, svcs, vers, id, fault) ==
    IF fault \in {"first", "second"}
    THEN [orgs |-> orgs, mems |-> mems, svcs |-> svcs, vers |-> vers,
          err |-> TRUE]
    ELSE IF fault = "commit"
    THEN [orgs |-> orgs, mems |-> mems, svcs |-> svcs, vers |-> vers,
          err |-> FALSE]
    ELSE LET gone == {sv \in svcs : sv.org = id /\ ~sv.deleted}
         IN [orgs |-> SoftDelete(orgs, {o \in orgs : o.id = id}),
             mems |-> mems,
             svcs |-> SoftDelete(svcs, gone),
             vers |-> SoftDelete(vers, {v \in vers :
                                          v.svc \in {sv.id : sv \in gone}}),
             err |-> FALSE]

\* OrganizationModel.Delete: one transaction that deletes the membership
\* rows of the organization, its services (RETURNING the rows it deleted),
\* the versions of those services and then the organization row.  All four
\* models carry DeletedAt, so the rows are marked deleted and a statement
\* touches live rows only.  A failing statement, whichever of the four it
\* is, rolls back and returns the error; the result of tx.Commit() is not
\* inspected.
OrganizationModel_Delete(orgs, mems, svcs, vers, id, fault) ==
    IF fault \in {"first", "second"}
    THEN [orgs |-> orgs, mems |-> mems, svcs |-> svcs, vers |-> vers,
          err |-> TRUE]
    ELSE IF fault = "commit"
    THEN [orgs |-> orgs, mems |-> mems, svcs |-> svcs, vers |-> vers,
          err |-> FALSE]
    ELSE LET gone == {sv \in svcs : sv.org = id /\ ~sv.deleted}
         IN [orgs |-> SoftDelete(orgs, {o \in orgs : o.id = id}),
             mems |-> SoftDelete(mems, {m \in mems : m.org = id}),
             svcs |-> SoftDelete(svcs, gone),
             vers |-> SoftDelete(vers, {v \in vers :
                                          v.svc \in {sv.id : sv \in gone}}),
             err |-> FALSE]

\* OrganizationModel.One: the live row with this id.
OrganizationModel_One(orgs, id) ==
    \E o \in orgs : o.id = id /\ ~o.deleted

\* ---------------------------------------------------- services and versions

\* ServiceModel.Create: insert a row for the organization; BeforeCreate
\* gives it the id.
ServiceModel_Create(svcs, id, organizationID, form, dbErr) ==
    IF dbErr
    THEN [svcs |-> svcs, err |-> TRUE]
    ELSE [svcs |-> svcs \cup {[id |-> id, org |-> organizationID,
                               description |-> form.description,
                               deleted |-> FALSE]},
          err |-> FALSE]

ServiceModel_One_AnyOrg(svcs, id, organizationID, dbErr) ==
    LET hits == {sv \in svcs : sv.id = id /\ ~sv.deleted}
    IN IF dbErr
       THEN [row |-> NoRow, isFound |-> TRUE, err |-> TRUE]
       ELSE IF hits = {}
       THEN [row |-> NoRow, isFound |-> FALSE, err |-> TRUE]
       ELSE [row |-> CHOOSE sv \in hits : TRUE, isFound |-> TRUE,
             err |-> FALSE]

\* ServiceModel.One: the live row with this id in this organization.
\* Record-not-found comes back as an error with isFound false, any other
\* error with isFound true.
ServiceModel_One(svcs, id, organizationID, dbErr) ==
    LET hits == {sv \in svcs :
                    sv.id = id /\ sv.org = organizationID /\ ~sv.deleted}
    IN IF dbErr
       THEN [row |-> NoRow, isFound |-> TRUE, err |-> TRUE]
       ELSE IF hits = {}
       THEN [row |-> NoRow, isFound |-> FALSE, err |-> TRUE]
       ELSE [row |-> CHOOSE sv \in hits : TRUE, isFound |-> TRUE,
             err |-> FALSE]

\* db.Save of a loaded record: every column of the row with the record's
\* primary key is written from the record.
Save(rows, record, dbErr) ==
    IF dbErr
    THEN [rows |-> rows, err |-> TRUE]
    ELSE [rows |-> {IF row.id = record.id THEN record ELSE row :
                       row \in rows},
          err |-> FALSE]

\* ServiceModel.Delete: one transaction that deletes the versions with this
\* service id and then the service row with this id in this organization.
\* A failing statement rolls back; the result of tx.Commit() is not
\* inspected.
ServiceModel_Delete(svcs, vers, id, organizationID, fault) ==
    IF fault \in {"first", "second"}
    THEN [svcs |-> svcs, vers |-> vers, err |-> TRUE]
    ELSE IF fault = "commit"
    THEN [svcs |-> svcs, vers |-> vers, err |-> FALSE]
    ELSE [svcs |-> SoftDelete(svcs, {sv \in svcs :
                                       sv.id = id /\ sv.org = organizationID}),
          vers |-> SoftDelete(vers, {v \in vers : v.svc = id}),
          err |-> FALSE]

ServiceVersionModel_Create_NoIndex(vers, id, serviceID, form, dbErr) ==
    IF dbErr
    THEN [vers |-> vers, err |-> TRUE]
    ELSE [vers |-> vers \cup {[id |-> id, svc |-> serviceID,
                               version |-> form.version,
                               description |-> form.description,
                               releaseTimestamp |-> form.releaseTimestamp,
                               deleted |-> FALSE]},
          err |-> FALSE]

\* ServiceVersionModel.Create: insert a row.  The unique index
\* idx_service_version over (version, service_id) covers every row of the
\* table, the rows marked deleted included, and rejects a second row with
\* the same pair.
ServiceVersionModel_Create(vers, id, serviceID, form, dbErr) ==
    IF dbErr \/ (\E v \in vers :
                    v.version = form.version /\ v.svc = serviceID)
    THEN [vers |-> vers, err |-> TRUE]
    ELSE [vers |-> vers \cup {[id |-> id, svc |-> serviceID,
                               version |-> form.version,
                               description |-> form.description,
                               releaseTimestamp |-> form.releaseTimestamp,
                               deleted |-> FALSE]},
          err |-> FALSE]

\* ServiceVersionModel.One: the live version row with this id and service
\* id, joined with the row of a service of this organization (the JOIN is
\* written by hand and does not look at the service's deleted_at).
ServiceVersionModel_One(vers, svcs, serviceID, organizationID, id, dbErr) ==
    LET hits == {v \in vers :
                    /\ v.svc = serviceID
                    /\ v.id = id
                    /\ ~v.deleted
                    /\ \E sv \in svcs :
                          sv.id = v.svc /\ sv.org = organizationID}
    IN IF dbErr
       THEN [row |-> NoRow, isFound |-> TRUE, err |-> TRUE]
       ELSE IF hits = {}
       THEN [row |-> NoRow, isFound |-> FALSE, err |-> TRUE]
       ELSE [row |-> CHOOSE v \in hits : TRUE, isFound |-> TRUE,
             err |-> FALSE]

\* ServiceVersionModel.Update between its read and its Save: only the
\* fields the form provides are set on the loaded record.
ApplyUpdateForm(record, form) ==
    [record EXCEPT
        !.description = IF form.description # ""
                        THEN form.description ELSE @,
        !.releaseTimestamp = IF form.releaseTimestamp # NoTime
                             THEN form.releaseTimestamp ELSE @]

\* ServiceVersionModel.Delete: the live row with this id, whatever its
\* service.
ServiceVersionModel_Delete(vers, id, dbErr) ==
    IF dbErr
    THEN [vers |-> vers, err |-> TRUE]
    ELSE [vers |-> SoftDelete(vers, {v \in vers : v.id = id}),
          err |-> FALSE]

\* ------------------------------------------------------- reclamation loop

\* Characters an environment value is made of in the model.
EnvChars == {"0", "1", "3", "6", "-", "x"}

\* The values TOKEN_CLEANUP_INTERVAL_MINUTES may hold; the empty string
\* stands for an unset variable as well (os.Getenv returns "" for both).
EnvValues == UNION {[1..n -> EnvChars] : n \in 0..MaxEnvLen}

\* utils.GetEnv: the value, or the fallback when the value is empty.
GetEnv(value, fallback) == IF value # <<>> THEN value ELSE fallback

DigitOf(c) ==
    CASE c = "0" -> 0 [] c = "1" -> 1 [] c = "2" -> 2 [] c = "3" -> 3
      [] c = "4" -> 4 [] c = "5" -> 5 [] c = "6" -> 6 [] c = "7" -> 7
      [] c = "8" -> 8 [] c = "9" -> 9 [] OTHER -> -1

\* The decimal value of a string of digits, or -1 when a character is not
\* a digit.
RECURSIVE ParseDigits(_, _)
ParseDigits(str, acc) ==
    IF str = <<>> THEN acc
    ELSE IF DigitOf(Head(str)) < 0 THEN -1
    ELSE ParseDigits(Tail(str), acc * 10 + DigitOf(Head(str)))

\* strconv.Atoi: an optional sign followed by at least one digit.
Atoi(str) ==
    LET signed == str # <<>> /\ Head(str) \in {"-", "+"}
        digits == IF signed THEN Tail(str) ELSE str
        value == ParseDigits(digits, 0)
    IN IF digits = <<>> \/ value < 0
       THEN [n |-> 0, err |-> TRUE]
       ELSE [n |-> IF signed /\ Head(str) = "-" THEN 0 - value ELSE value,
             err |-> FALSE]

\* StartTokenCleanup, the interval: the minutes read from the environment,
\* replaced when Atoi fails or the number is below 1.
CleanupIntervalMinutes(value) ==
    LET parsed == Atoi(GetEnv(value, DefaultIntervalEnv))
    IN IF parsed.err \/ parsed.n < 1
       THEN InvalidIntervalFallback
       ELSE parsed.n

\* The interval in clock units; an interval that is no whole number of
\* units is rounded up to the next unit.
IntervalUnits(minutes) == (minutes + MinutesPerUnit - 1) \div MinutesPerUnit

\* The goroutine before StartTokenCleanup is called.  pc is the loop's
\* position, wait the clock units until the ticker fires next, ch the number
\* of ticks held by ticker.C (a channel of capacity one), lastErr whether
\* the last CleanupExpired returned an error.  The remaining fields are an
\* observer's notes and are read by no action:
\*   age       clock units since time.NewTicker, counted up to the interval
\*   unserved  ticks fired so far minus Reaps started so far (up to MaxLag)
\*   lost      a tick fired while ticker.C was full and was dropped
CleanerOff(value) ==
    [pc |-> "off", env |-> value, minutes |-> 0, wait |-> 0, ch |-> 0,
     lastErr |-> FALSE, age |-> 0, unserved |-> 0, lost |-> FALSE]

\* One clock unit passes for the ticker.
Elapse(c) ==
    IF c.pc = "off" THEN c
    ELSE [c EXCEPT
             !.wait = IF c.wait > 0 THEN c.wait - 1 ELSE 0,
             !.age = IF c.age < IntervalUnits(c.minutes)
                     THEN c.age + 1 ELSE c.age]

\* The TokenService call under observation: none yet.
NoCall ==
    [userID |-> "", email |-> "", tok |-> NoToken, at |-> 0,
     valid |-> FALSE, claims |-> ParsedClaims(NoToken)]

\* ------------------------------------------------------------------ state

\* A request slot.  route, tok and org are the request; user is what
\* AuthMiddleware put in the gin context; status, msg are the response and
\* ran tells whether the controller was invoked.  The remaining fields are
\* an observer's notes and are read by no action:
\*   afterLogout  the token had a successful logout before the request began
\*   afterDelete  the request is by the creator of an organization that had
\*                been deleted before the request began
\*   lookupErr    the revocation query of AuthMiddleware failed
\*   gate         what the membership query of the gate found ("err_..."
\*                when the query failed, with what it would have found)
\*   orgExisted   the organization was live when the gate ran
\*   dupInsert    the logout's insert failed while a row with the token's
\*                fingerprint was stored (for a version create: while a
\*                row with the service id and version string was stored)
\* and of a request to a service or version route
\*   svc, ver     the :serviceId and :versionId path parameters
\*   form         the bound request body
\*   loaded       the row the handler read and is about to write back
\*   foreign      (observer) when the request was sent, the service it
\*                names was live in another organization than the one it
\*                names, and the token's user was a member of the latter
\*                and not of the former
IdleReq ==
    [pc |-> "idle", route |-> "none", tok |-> NoToken, org |-> "",
     user |-> "", status |-> 0, msg |-> MsgNone, ran |-> FALSE,
     afterLogout |-> FALSE, afterDelete |-> FALSE, lookupErr |-> FALSE,
     gate |-> "none", orgExisted |-> FALSE, dupInsert |-> FALSE,
     svc |-> "", ver |-> "", form |-> NoForm, loaded |-> NoRow,
     foreign |-> FALSE]

Init ==
    /\ now = 0
    /\ issued = {}
    /\ blacklist = {}
    /\ organizations = {}
    /\ memberships = {}
    /\ services = {}
    /\ versions = {}
    /\ req = [r \in Reqs |-> IdleReq]
    /\ loggedOut = {}
    /\ cleaner = CleanerOff(<<>>)
    /\ tokenCall = NoCall

\* The response is written and the chain ends (c.Abort... or the
\* controller returning); the slot keeps the response and the notes.
Finish(q, code, message) ==
    [q EXCEPT !.pc = "done", !.status = code, !.msg = message,
              !.tok = NoToken, !.org = "", !.user = "", !.svc = "",
              !.ver = "", !.form = NoForm, !.loaded = NoRow]

\* ---------------------------------------------------------------- actions

\* No clock unit passes while the ticker is due (the runtime's send on
\* ticker.C never blocks) or while the loop waits in its select with a tick
\* in ticker.C.
TimeMayPass ==
    \/ cleaner.pc = "off"
    \/ /\ cleaner.wait > 0
       /\ cleaner.pc = "Idle" => cleaner.ch = 0

\* The clock advances by one unit.
Tick ==
    /\ now < MaxTime
    /\ TimeMayPass
    /\ now' = now + 1
    /\ cleaner' = Elapse(cleaner)
    /\ UNCHANGED <<issued, blacklist, organizations, memberships, req,
                   loggedOut, tokenCall, services, versions>>

\* UserController.Login with correct credentials.  The three clock reads of
\* GenerateToken fall in the same clock unit.
Login(u) ==
    /\ Cardinality(issued) < MaxTokens
    /\ issued' = issued \cup {GenerateToken(u, UserEmail[u], now, now, now)}
    /\ UNCHANGED <<now, blacklist, organizations, memberships, req, loggedOut,
                   cleaner, tokenCall, services, versions>>

\* Ids not yet taken by an organization row.
FreshOrgIds == OrgIds \ {o.id : o \in organizations}

\* Organization.BeforeCreate: uuid.New() yields an id no row has; ids are
\* opaque, so the model hands them out in a fixed order.
NewOrgId == IF "o1" \in FreshOrgIds THEN "o1" ELSE "o2"

\* The live service s belongs to another organization than o, and user u
\* is a member of o and not of the service's organization.
ForeignService(u, o, s) ==
    \E sv \in services :
       /\ sv.id = s
       /\ ~sv.deleted
       /\ sv.org # o
       /\ IsUserMember(memberships, o, u, FALSE).isMember
       /\ ~IsUserMember(memberships, sv.org, u, FALSE).isMember

\* A client sends a request to one of `routes`, presenting no token, an
\* issued token or a forged one; an org-scoped route names any
\* organization id.
StartRequest(r, routes) ==
    /\ req[r].pc \in {"idle", "done"}
    /\ \E route \in routes, tok \in {NoToken, ForgedToken} \cup issued,
          o \in OrgIds :
          /\ route \notin OrgScoped => o = "o1"
          /\ \E s \in (IF route \in WithServiceId THEN ServiceIds ELSE {""}),
                v \in (IF route \in WithVersionId THEN VersionIds ELSE {""}),
                f \in FormsOf(route) :
             req' = [req EXCEPT ![r] =
                [IdleReq EXCEPT
                    !.pc = "auth", !.route = route, !.tok = tok,
                    !.svc = s, !.ver = v, !.form = f,
                    !.foreign = ForeignService(tok.uid, o, s),
                    !.org = IF route \in OrgScoped THEN o ELSE "",
                    !.afterLogout = (tok \in loggedOut),
                    !.afterDelete =
                        /\ route \in OrgScoped
                        /\ \E row \in organizations :
                              /\ row.id = o
                              /\ row.deleted
                              /\ row.createdBy = tok.uid]]
    /\ UNCHANGED <<now, issued, blacklist, organizations, memberships,
                   loggedOut, cleaner, tokenCall, services, versions>>

AuthMiddleware_RevealRevoked(r) ==
    /\ req[r].pc = "auth"
    /\ LET q == req[r]
           tok == q.tok
       IN IF tok = NoToken
          THEN /\ req' = [req EXCEPT ![r] =
                    Finish(q, StatusUnauthorized, MsgHeaderRequired)]
               /\ now' = now
          ELSE IF ~ValidateToken(tok, now)
          THEN /\ req' = [req EXCEPT ![r] =
                    Finish(q, StatusUnauthorized, MsgInvalidToken)]
               /\ now' = now
          ELSE \E d \in 0..1, dbErr \in BOOLEAN :
               /\ now + d <= MaxTime
               /\ now' = now + d
               /\ LET seen == [q EXCEPT !.lookupErr = dbErr]
                  IN req' = [req EXCEPT ![r] =
                        IF IsBlacklisted(blacklist, HashToken(tok), now + d,
                                         dbErr)
                        THEN Finish(seen, StatusUnauthorized,
                                    "Token has been revoked")
                        ELSE [seen EXCEPT
                                 !.pc = IF q.route \in OrgScoped
                                        THEN "gate" ELSE "handler",
                                 !.user = tok.uid]]
    /\ UNCHANGED <<issued, blacklist, organizations, memberships, loggedOut,
                   cleaner, tokenCall, services, versions>>

AuthMiddleware_SkipLookup(r) ==
    /\ req[r].pc = "auth"
    /\ LET q == req[r]
           tok == q.tok
       IN IF tok = NoToken
          THEN /\ req' = [req EXCEPT ![r] =
                    Finish(q, StatusUnauthorized, MsgHeaderRequired)]
               /\ now' = now
          ELSE IF ~ValidateToken(tok, now)
          THEN /\ req' = [req EXCEPT ![r] =
                    Finish(q, StatusUnauthorized, MsgInvalidToken)]
               /\ now' = now
          ELSE \E d \in 0..1, dbErr \in BOOLEAN :
               /\ now + d <= MaxTime
               /\ now' = now + d
               /\ LET seen == [q EXCEPT !.lookupErr = dbErr]
                  IN req' = [req EXCEPT ![r] =
                        IF FALSE
                        THEN Finish(seen, StatusUnauthorized, MsgInvalidToken)
                        ELSE [seen EXCEPT
                                 !.pc = IF q.route \in OrgScoped
                                        THEN "gate" ELSE "handler",
                                 !.user = tok.uid]]
    /\ UNCHANGED <<issued, blacklist, organizations, memberships, loggedOut,
                   cleaner, tokenCall, services, versions>>

\* middleware.AuthMiddleware.  ValidateToken reads the clock, then
\* IsBlacklisted reads it again for its query; the clock may have advanced
\* by then.
AuthMiddleware(r) ==
    /\ req[r].pc = "auth"
    /\ LET q == req[r]
           tok == q.tok
       IN IF tok = NoToken
          THEN /\ req' = [req EXCEPT ![r] =
                    Finish(q, StatusUnauthorized, MsgHeaderRequired)]
               /\ now' = now
          ELSE IF ~ValidateToken(tok, now)
          THEN /\ req' = [req EXCEPT ![r] =
                    Finish(q, StatusUnauthorized, MsgInvalidToken)]
               /\ now' = now
          ELSE \E d \in 0..1, dbErr \in BOOLEAN :
               /\ now + d <= MaxTime
               /\ now' = now + d
               /\ LET seen == [q EXCEPT !.lookupErr = dbErr]
                  IN req' = [req EXCEPT ![r] =
                        IF IsBlacklisted(blacklist, HashToken(tok), now + d,
                                         dbErr)
                        THEN Finish(seen, StatusUnauthorized, MsgInvalidToken)
                        ELSE [seen EXCEPT
                                 !.pc = IF q.route \in OrgScoped
                                        THEN "gate" ELSE "handler",
                                 !.user = tok.uid]]
    /\ UNCHANGED <<issued, blacklist, organizations, memberships, loggedOut,
                   cleaner, tokenCall, services, versions>>

\* What the observer notes of the gate's membership query.
GateNote(q, res) ==
    LET truth == IsUserMember(memberships, q.org, q.user, FALSE).isMember
    IN [q EXCEPT
           !.gate = IF res.err
                    THEN (IF truth THEN "err_member" ELSE "err_nonmember")
                    ELSE (IF res.isMember THEN "member" ELSE "nonmember"),
           !.orgExisted = \E o \in organizations : o.id = q.org /\ ~o.deleted]

OrganizationAccessMiddleware_IgnoreErr(r) ==
    /\ req[r].pc = "gate"
    /\ \E dbErr \in BOOLEAN :
          LET q == req[r]
              res == IsUserMember(memberships, q.org, q.user, dbErr)
              seen == GateNote(q, res)
          IN req' = [req EXCEPT ![r] =
                IF ~res.isMember
                THEN Finish(seen, StatusForbidden, MsgNotAuthorized)
                ELSE [seen EXCEPT !.pc = "handler"]]
    /\ UNCHANGED <<now, issued, blacklist, organizations, memberships,
                   loggedOut, cleaner, tokenCall, services, versions>>

OrganizationAccessMiddleware_LeakExistence(r) ==
    /\ req[r].pc = "gate"
    /\ \E dbErr \in BOOLEAN :
          LET q == req[r]
              res == IsUserMember(memberships, q.org, q.user, dbErr)
              seen == GateNote(q, res)
          IN req' = [req EXCEPT ![r] =
                IF res.err
                THEN Finish(seen, StatusInternalServerError,
                            MsgAccessCheckFailed)
                ELSE IF ~(\E o \in organizations : o.id = q.org /\ ~o.deleted)
                THEN Finish(seen, StatusNotFound, MsgOrgNotFound)
                ELSE IF ~res.isMember
                THEN Finish(seen, StatusForbidden, MsgNotAuthorized)
                ELSE [seen EXCEPT !.pc = "handler"]]
    /\ UNCHANGED <<now, issued, blacklist, organizations, memberships,
                   loggedOut, cleaner, tokenCall, services, versions>>

\* middleware.OrganizationAccessMiddleware: user_id was set by
\* AuthMiddleware and orgId is a path parameter, so neither is empty.
OrganizationAccessMiddleware(r) ==
    /\ req[r].pc = "gate"
    /\ \E dbErr \in BOOLEAN :
          LET q == req[r]
              res == IsUserMember(memberships, q.org, q.user, dbErr)
              seen == GateNote(q, res)
          IN req' = [req EXCEPT ![r] =
                IF res.err
                THEN Finish(seen, StatusInternalServerError,
                            MsgAccessCheckFailed)
                ELSE IF ~res.isMember
                THEN Finish(seen, StatusForbidden, MsgNotAuthorized)
                ELSE [seen EXCEPT !.pc = "handler"]]
    /\ UNCHANGED <<now, issued, blacklist, organizations, memberships,
                   loggedOut, cleaner, tokenCall, services, versions>>

\* UserController.Logout, reached after AuthMiddleware: the header is present
\* and GetTokenClaims verifies the signature again; the fingerprint is
\* inserted with the user id and expiry of the token's own claims.
Logout(r) ==
    /\ req[r].pc = "handler"
    /\ req[r].route = "logout"
    /\ \E dbErr \in BOOLEAN :
          LET q == [req[r] EXCEPT !.ran = TRUE]
              tok == q.tok
          IN IF ~GetTokenClaims(tok)
             THEN /\ req' = [req EXCEPT ![r] =
                       Finish(q, StatusUnauthorized, MsgInvalidToken)]
                  /\ UNCHANGED <<blacklist, loggedOut, services, versions>>
             ELSE LET res == BlacklistedTokenModel_Create(
                                 blacklist, HashToken(tok), tok.uid, tok.exp,
                                 now, dbErr)
                      dup == \E row \in blacklist :
                                 row.hash = HashToken(tok)
                  IN /\ blacklist' = res.bl
                     /\ IF res.err
                        THEN /\ req' = [req EXCEPT ![r] =
                                  Finish([q EXCEPT !.dupInsert = dup],
                                         StatusInternalServerError,
                                         MsgLogoutFailed)]
                             /\ UNCHANGED loggedOut
                        ELSE /\ req' = [req EXCEPT ![r] =
                                  Finish(q, StatusNoContent, MsgNone)]
                             /\ loggedOut' = loggedOut \cup {tok}
    /\ UNCHANGED <<now, issued, organizations, memberships, cleaner,
                   tokenCall, services, versions>>

\* OrganizationController.GetOrganizations: lists the caller's
\* organizations; it writes nothing.
GetOrganizations(r) ==
    /\ req[r].pc = "handler"
    /\ req[r].route = "listOrgs"
    /\ \E dbErr \in BOOLEAN :
          LET q == [req[r] EXCEPT !.ran = TRUE]
          IN req' = [req EXCEPT ![r] =
                IF dbErr
                THEN Finish(q, StatusInternalServerError, MsgFetchOrgsFailed)
                ELSE Finish(q, StatusOK, MsgNone)]
    /\ UNCHANGED <<now, issued, blacklist, organizations, memberships,
                   loggedOut, cleaner, tokenCall, services, versions>>

\* OrganizationController.CreateOrganization (with a well-formed body).
CreateOrganization(r) ==
    /\ req[r].pc = "handler"
    /\ req[r].route = "createOrg"
    /\ FreshOrgIds # {}
    /\ Cardinality(organizations) < MaxOrgs
    /\ \E fault \in TxFaults :
          LET q == [req[r] EXCEPT !.ran = TRUE]
              id == NewOrgId
              res == OrganizationModel_Create(organizations, memberships,
                                              id, q.user, fault)
          IN /\ organizations' = res.orgs
             /\ memberships' = res.mems
             /\ req' = [req EXCEPT ![r] =
                   IF res.err
                   THEN Finish(q, StatusInternalServerError,
                               MsgCreateOrgFailed)
                   ELSE Finish(q, StatusCreated, MsgNone)]
    /\ UNCHANGED <<now, issued, blacklist, loggedOut, cleaner, tokenCall,
                   services, versions>>

\* OrganizationController.GetOrganization: the controller checks membership
\* itself before it reads the organization.
GetOrganization(r) ==
    /\ req[r].pc = "handler"
    /\ req[r].route = "getOrg"
    /\ \E dbErr1 \in BOOLEAN, dbErr2 \in BOOLEAN :
          LET q == [req[r] EXCEPT !.ran = TRUE]
              mem == IsUserMember(memberships, q.org, q.user, dbErr1)
          IN req' = [req EXCEPT ![r] =
                IF mem.err
                THEN Finish(q, StatusInternalServerError,
                            MsgAccessCheckFailed)
                ELSE IF ~mem.isMember
                THEN Finish(q, StatusForbidden, MsgNotAuthorized)
                ELSE IF dbErr2
                THEN Finish(q, StatusInternalServerError, MsgFetchOrgFailed)
                ELSE IF ~OrganizationModel_One(organizations, q.org)
                THEN Finish(q, StatusNotFound, MsgOrgNotFound)
                ELSE Finish(q, StatusOK, MsgNone)]
    /\ UNCHANGED <<now, issued, blacklist, organizations, memberships,
                   loggedOut, cleaner, tokenCall, services, versions>>

\* OrganizationController.DeleteOrganization.
DeleteOrganization(r) ==
    /\ req[r].pc = "handler"
    /\ req[r].route = "deleteOrg"
    /\ \E dbErr \in BOOLEAN, fault \in TxFaults :
          LET q == [req[r] EXCEPT !.ran = TRUE]
              mem == IsUserMember(memberships, q.org, q.user, dbErr)
              res == OrganizationModel_Delete(organizations, memberships,
                                              services, versions, q.org,
                                              fault)
          IN IF mem.err \/ ~mem.isMember
             THEN /\ req' = [req EXCEPT ![r] =
                       IF mem.err
                       THEN Finish(q, StatusInternalServerError,
                                   MsgAccessCheckFailed)
                       ELSE Finish(q, StatusForbidden, MsgNotAuthorized)]
                  /\ UNCHANGED <<organizations, memberships, services,
                                 versions>>
             ELSE /\ organizations' = res.orgs
                  /\ memberships' = res.mems
                  /\ services' = res.svcs
                  /\ versions' = res.vers
                  /\ req' = [req EXCEPT ![r] =
                        IF res.err
                        THEN Finish(q, StatusInternalServerError,
                                    MsgDeleteOrgFailed)
                        ELSE Finish(q, StatusNoContent, MsgNone)]
    /\ UNCHANGED <<now, issued, blacklist, loggedOut, cleaner, tokenCall>>

\* ------------------------------------------- service and version handlers
\* A controller that reads and then writes makes several datastore round
\* trips; requests interleave between its reads and its write, so such a
\* controller is two steps: its reads (pc "handler"), then its write and
\* response (pc "write").

\* checkOrganizationAccess when it refuses: 500 on a query error, 403 for
\* a user who is not a member.
AccessRefused(q, mem) ==
    IF mem.err
    THEN Finish(q, StatusInternalServerError, MsgAccessCheckFailed)
    ELSE Finish(q, StatusForbidden, MsgNotAuthorized)

\* The answer to a failed One: 404 when no row was found, 500 otherwise.
LookupFailed(q, one, notFound, failed) ==
    IF ~one.isFound
    THEN Finish(q, StatusNotFound, notFound)
    ELSE Finish(q, StatusInternalServerError, failed)

\* Service.BeforeCreate and ServiceVersion.BeforeCreate: uuid.New() yields
\* an id no row has; the model hands ids out in a fixed order.
FreshServiceIds == ServiceIds \ {sv.id : sv \in services}
NewServiceId == IF "s1" \in FreshServiceIds THEN "s1" ELSE "s2"
FreshVersionIds == VersionIds \ {v.id : v \in versions}
NewVersionId == IF "v1" \in FreshVersionIds THEN "v1" ELSE "v2"

\* ServiceController.CreateService up to the bound form.
CreateService(r) ==
    /\ req[r].pc = "handler"
    /\ req[r].route = "createService"
    /\ \E accessErr \in BOOLEAN :
          LET q == [req[r] EXCEPT !.ran = TRUE]
              mem == IsUserMember(memberships, q.org, q.user, accessErr)
          IN req' = [req EXCEPT ![r] =
                IF mem.err \/ ~mem.isMember
                THEN AccessRefused(q, mem)
                ELSE [q EXCEPT !.pc = "write"]]
    /\ UNCHANGED <<now, issued, blacklist, organizations, memberships,
                   loggedOut, cleaner, tokenCall, services,
                   versions>>

\* ServiceController.CreateService: serviceModel.Create and the response.
CreateServiceInsert(r) ==
    /\ req[r].pc = "write"
    /\ req[r].route = "createService"
    /\ FreshServiceIds # {}
    /\ \E dbErr \in BOOLEAN :
          LET q == req[r]
              res == ServiceModel_Create(services, NewServiceId, q.org,
                                         q.form, dbErr)
          IN /\ services' = res.svcs
             /\ req' = [req EXCEPT ![r] =
                   IF res.err
                   THEN Finish(q, StatusInternalServerError,
                               MsgCreateServiceFailed)
                   ELSE Finish(q, StatusOK, MsgNone)]
    /\ UNCHANGED <<now, issued, blacklist, organizations, memberships,
                   loggedOut, cleaner, tokenCall, versions>>

\* ServiceController.GetService.
GetService(r) ==
    /\ req[r].pc = "handler"
    /\ req[r].route = "getService"
    /\ \E accessErr \in BOOLEAN, dbErr \in BOOLEAN :
          LET q == [req[r] EXCEPT !.ran = TRUE]
              mem == IsUserMember(memberships, q.org, q.user, accessErr)
              one == ServiceModel_One(services, q.svc, q.org, dbErr)
          IN req' = [req EXCEPT ![r] =
                IF mem.err \/ ~mem.isMember
                THEN AccessRefused(q, mem)
                ELSE IF one.err
                THEN LookupFailed(q, one, MsgServiceNotFound,
                                  MsgGetServiceFailed)
                ELSE Finish(q, StatusOK, MsgNone)]
    /\ UNCHANGED <<now, issued, blacklist, organizations, memberships,
                   loggedOut, cleaner, tokenCall, services,
                   versions>>

\* ServiceController.UpdateService up to the Save of ServiceModel.Update:
\* the access check, serviceModel.One, and the read of Update with the
\* form's fields set on the loaded record.
UpdateService(r) ==
    /\ req[r].pc = "handler"
    /\ req[r].route = "updateService"
    /\ \E accessErr \in BOOLEAN, dbErr \in BOOLEAN :
          LET q == [req[r] EXCEPT !.ran = TRUE]
              mem == IsUserMember(memberships, q.org, q.user, accessErr)
              one == ServiceModel_One(services, q.svc, q.org, dbErr)
          IN req' = [req EXCEPT ![r] =
                IF mem.err \/ ~mem.isMember
                THEN AccessRefused(q, mem)
                ELSE IF one.err
                THEN LookupFailed(q, one, MsgServiceNotFound,
                                  MsgGetServiceFailed)
                ELSE [q EXCEPT
                         !.pc = "write",
                         !.loaded = [one.row EXCEPT
                                        !.description = q.form.description]]]
    /\ UNCHANGED <<now, issued, blacklist, organizations, memberships,
                   loggedOut, cleaner, tokenCall, services,
                   versions>>

\* ServiceModel.Update: db.Save of the loaded record, and the response.
UpdateServiceSave(r) ==
    /\ req[r].pc = "write"
    /\ req[r].route = "updateService"
    /\ \E dbErr \in BOOLEAN :
          LET q == req[r]
              res == Save(services, q.loaded, dbErr)
          IN /\ services' = res.rows
             /\ req' = [req EXCEPT ![r] =
                   IF res.err
                   THEN Finish(q, StatusInternalServerError,
                               MsgUpdateServiceFailed)
                   ELSE Finish(q, StatusOK, MsgNone)]
    /\ UNCHANGED <<now, issued, blacklist, organizations, memberships,
                   loggedOut, cleaner, tokenCall, versions>>

\* ServiceController.DeleteService up to serviceModel.Delete.
DeleteService(r) ==
    /\ req[r].pc = "handler"
    /\ req[r].route = "deleteService"
    /\ \E accessErr \in BOOLEAN, dbErr \in BOOLEAN :
          LET q == [req[r] EXCEPT !.ran = TRUE]
              mem == IsUserMember(memberships, q.org, q.user, accessErr)
              one == ServiceModel_One(services, q.svc, q.org, dbErr)
          IN req' = [req EXCEPT ![r] =
                IF mem.err \/ ~mem.isMember
                THEN AccessRefused(q, mem)
                ELSE IF one.err
                THEN LookupFailed(q, one, MsgServiceNotFound,
                                  MsgGetServiceFailed)
                ELSE [q EXCEPT !.pc = "write"]]
    /\ UNCHANGED <<now, issued, blacklist, organizations, memberships,
                   loggedOut, cleaner, tokenCall, services,
                   versions>>

\* ServiceController.DeleteService: serviceModel.Delete and the response.
DeleteServiceTx(r) ==
    /\ req[r].pc = "write"
    /\ req[r].route = "deleteService"
    /\ \E fault \in TxFaults :
          LET q == req[r]
              res == ServiceModel_Delete(services, versions, q.svc, q.org,
                                         fault)
          IN /\ services' = res.svcs
             /\ versions' = res.vers
             /\ req' = [req EXCEPT ![r] =
                   IF res.err
                   THEN Finish(q, StatusInternalServerError,
                               MsgDeleteServiceFailed)
                   ELSE Finish(q, StatusNoContent, MsgNone)]
    /\ UNCHANGED <<now, issued, blacklist, organizations, memberships,
                   loggedOut, cleaner, tokenCall>>

\* ServiceVersionController.CreateServiceVersion up to the insert: the
\* access check and serviceModel.One.
CreateServiceVersion(r) ==
    /\ req[r].pc = "handler"
    /\ req[r].route = "createVersion"
    /\ \E accessErr \in BOOLEAN, dbErr \in BOOLEAN :
          LET q == [req[r] EXCEPT !.ran = TRUE]
              mem == IsUserMember(memberships, q.org, q.user, accessErr)
              one == ServiceModel_One(services, q.svc, q.org, dbErr)
          IN req' = [req EXCEPT ![r] =
                IF mem.err \/ ~mem.isMember
                THEN AccessRefused(q, mem)
                ELSE IF one.err
                THEN LookupFailed(q, one, MsgServiceNotFound,
                                  MsgGetVersionsFailed)
                ELSE [q EXCEPT !.pc = "write"]]
    /\ UNCHANGED <<now, issued, blacklist, organizations, memberships,
                   loggedOut, cleaner, tokenCall, services,
                   versions>>

\* ServiceVersionController.CreateServiceVersion: serviceVersionModel.Create
\* and the response; any error of the insert is answered 500.
CreateServiceVersionInsert(r) ==
    /\ req[r].pc = "write"
    /\ req[r].route = "createVersion"
    /\ FreshVersionIds # {}
    /\ \E dbErr \in BOOLEAN :
          LET q == req[r]
              res == ServiceVersionModel_Create(versions, NewVersionId,
                                                q.svc, q.form, dbErr)
              dup == \E v \in versions :
                        v.svc = q.svc /\ v.version = q.form.version
          IN /\ versions' = res.vers
             /\ req' = [req EXCEPT ![r] =
                   IF res.err
                   THEN Finish([q EXCEPT !.dupInsert = dup],
                               StatusInternalServerError,
                               MsgCreateVersionFailed)
                   ELSE Finish(q, StatusOK, MsgNone)]
    /\ UNCHANGED <<now, issued, blacklist, organizations, memberships,
                   loggedOut, cleaner, tokenCall, services>>

\* ServiceVersionController.GetServiceVersions.
GetServiceVersions(r) ==
    /\ req[r].pc = "handler"
    /\ req[r].route = "listVersions"
    /\ \E accessErr \in BOOLEAN, dbErr \in BOOLEAN :
          LET q == [req[r] EXCEPT !.ran = TRUE]
              mem == IsUserMember(memberships, q.org, q.user, accessErr)
              one == ServiceModel_One(services, q.svc, q.org, dbErr)
          IN req' = [req EXCEPT ![r] =
                IF mem.err \/ ~mem.isMember
                THEN AccessRefused(q, mem)
                ELSE IF one.err
                THEN LookupFailed(q, one, MsgServiceNotFound,
                                  MsgGetVersionsFailed)
                ELSE Finish(q, StatusOK, MsgNone)]
    /\ UNCHANGED <<now, issued, blacklist, organizations, memberships,
                   loggedOut, cleaner, tokenCall, services,
                   versions>>

\* ServiceVersionController.GetServiceVersion.
GetServiceVersion(r) ==
    /\ req[r].pc = "handler"
    /\ req[r].route = "getVersion"
    /\ \E accessErr \in BOOLEAN, dbErr \in BOOLEAN :
          LET q == [req[r] EXCEPT !.ran = TRUE]
              mem == IsUserMember(memberships, q.org, q.user, accessErr)
              one == ServiceVersionModel_One(versions, services, q.svc,
                                             q.org, q.ver, dbErr)
          IN req' = [req EXCEPT ![r] =
                IF mem.err \/ ~mem.isMember
                THEN AccessRefused(q, mem)
                ELSE IF one.err
                THEN LookupFailed(q, one, MsgVersionNotFound,
                                  MsgGetVersionFailed)
                ELSE Finish(q, StatusOK, MsgNone)]
    /\ UNCHANGED <<now, issued, blacklist, organizations, memberships,
                   loggedOut, cleaner, tokenCall, services,
                   versions>>

\* ServiceVersionController.UpdateServiceVersion up to the Save of
\* ServiceVersionModel.Update: the access check, serviceVersionModel.One,
\* and the read of Update with the provided fields set on the loaded
\* record.
UpdateServiceVersion(r) ==
    /\ req[r].pc = "handler"
    /\ req[r].route = "updateVersion"
    /\ \E accessErr \in BOOLEAN, dbErr \in BOOLEAN :
          LET q == [req[r] EXCEPT !.ran = TRUE]
              mem == IsUserMember(memberships, q.org, q.user, accessErr)
              one == ServiceVersionModel_One(versions, services, q.svc,
                                             q.org, q.ver, dbErr)
          IN req' = [req EXCEPT ![r] =
                IF mem.err \/ ~mem.isMember
                THEN AccessRefused(q, mem)
                ELSE IF one.err
                THEN LookupFailed(q, one, MsgVersionNotFound,
                                  MsgGetVersionFailed)
                ELSE [q EXCEPT
                         !.pc = "write",
                         !.loaded = ApplyUpdateForm(one.row, q.form)]]
    /\ UNCHANGED <<now, issued, blacklist, organizations, memberships,
                   loggedOut, cleaner, tokenCall, services,
                   versions>>

\* ServiceVersionModel.Update: db.Save of the loaded record, and the
\* response.
UpdateServiceVersionSave(r) ==
    /\ req[r].pc = "write"
    /\ req[r].route = "updateVersion"
    /\ \E dbErr \in BOOLEAN :
          LET q == req[r]
              res == Save(versions, q.loaded, dbErr)
          IN /\ versions' = res.rows
             /\ req' = [req EXCEPT ![r] =
                   IF res.err
                   THEN Finish(q, StatusInternalServerError,
                               MsgUpdateVersionFailed)
                   ELSE Finish(q, StatusOK, MsgNone)]
    /\ UNCHANGED <<now, issued, blacklist, organizations, memberships,
                   loggedOut, cleaner, tokenCall, services>>

\* ServiceVersionController.DeleteServiceVersion up to its delete.
DeleteServiceVersion(r) ==
    /\ req[r].pc = "handler"
    /\ req[r].route = "deleteVersion"
    /\ \E accessErr \in BOOLEAN, dbErr \in BOOLEAN :
          LET q == [req[r] EXCEPT !.ran = TRUE]
              mem == IsUserMember(memberships, q.org, q.user, accessErr)
              one == ServiceVersionModel_One(versions, services, q.svc,
                                             q.org, q.ver, dbErr)
          IN req' = [req EXCEPT ![r] =
                IF mem.err \/ ~mem.isMember
                THEN AccessRefused(q, mem)
                ELSE IF one.err
                THEN LookupFailed(q, one, MsgVersionNotFound,
                                  MsgGetVersionFailed)
                ELSE [q EXCEPT !.pc = "write"]]
    /\ UNCHANGED <<now, issued, blacklist, organizations, memberships,
                   loggedOut, cleaner, tokenCall, services,
                   versions>>

\* ServiceVersionController.DeleteServiceVersion: serviceVersionModel.Delete
\* and the response.
DeleteServiceVersionRow(r) ==
    /\ req[r].pc = "write"
    /\ req[r].route = "deleteVersion"
    /\ \E dbErr \in BOOLEAN :
          LET q == req[r]
              res == ServiceVersionModel_Delete(versions, q.ver, dbErr)
          IN /\ versions' = res.vers
             /\ req' = [req EXCEPT ![r] =
                   IF res.err
                   THEN Finish(q, StatusInternalServerError,
                               MsgDeleteVersionFailed)
                   ELSE Finish(q, StatusNoContent, MsgNone)]
    /\ UNCHANGED <<now, issued, blacklist, organizations, memberships,
                   loggedOut, cleaner, tokenCall, services>>

\* One iteration of the StartTokenCleanup loop with the ticker left out:
\* CleanupExpired at the current clock value, at any time; an error is
\* logged and the loop goes on.  (SpecCleanup has the loop with its ticker.)
TokenCleanupTick ==
    /\ \E dbErr \in BOOLEAN :
          blacklist' = CleanupExpired(blacklist, now, dbErr).bl
    /\ UNCHANGED <<now, issued, organizations, memberships, req, loggedOut,
                   cleaner, tokenCall, services, versions>>

StartTokenCleanup_TickAtStartup ==
    /\ cleaner.pc = "off"
    /\ LET minutes == CleanupIntervalMinutes(cleaner.env)
       IN cleaner' = [cleaner EXCEPT !.pc = "Idle", !.minutes = minutes,
                                     !.wait = 0]
    /\ UNCHANGED <<now, issued, blacklist, organizations, memberships, req,
                   loggedOut, tokenCall, services, versions>>

\* StartTokenCleanup up to the loop: the interval is read and the ticker
\* created; its first tick is one interval away.
StartTokenCleanup ==
    /\ cleaner.pc = "off"
    /\ LET minutes == CleanupIntervalMinutes(cleaner.env)
       IN cleaner' = [cleaner EXCEPT !.pc = "Idle", !.minutes = minutes,
                                     !.wait = IntervalUnits(minutes)]
    /\ UNCHANGED <<now, issued, blacklist, organizations, memberships, req,
                   loggedOut, tokenCall, services, versions>>

\* The ticker fires: the tick is put in ticker.C, or dropped when ticker.C
\* already holds one; the next tick is one interval away.
TickerFire ==
    /\ cleaner.pc # "off"
    /\ cleaner.wait = 0
    /\ cleaner' = [cleaner EXCEPT
                      !.ch = 1,
                      !.wait = IntervalUnits(cleaner.minutes),
                      !.lost = cleaner.lost \/ cleaner.ch = 1,
                      !.unserved = IF cleaner.unserved < MaxLag
                                   THEN cleaner.unserved + 1
                                   ELSE cleaner.unserved]
    /\ UNCHANGED <<now, issued, blacklist, organizations, memberships, req,
                   loggedOut, tokenCall, services, versions>>

CleanupLoopReceive_KeepTick ==
    /\ cleaner.pc = "Idle"
    /\ cleaner.ch = 1
    /\ cleaner' = [cleaner EXCEPT !.pc = "Reaping"]
    /\ UNCHANGED <<now, issued, blacklist, organizations, memberships, req,
                   loggedOut, tokenCall, services, versions>>

\* The loop's select receives a tick from ticker.C.
CleanupLoopReceive ==
    /\ cleaner.pc = "Idle"
    /\ cleaner.ch = 1
    /\ cleaner' = [cleaner EXCEPT
                      !.pc = "Reaping",
                      !.ch = 0,
                      !.unserved = IF cleaner.unserved > 0
                                   THEN cleaner.unserved - 1 ELSE 0]
    /\ UNCHANGED <<now, issued, blacklist, organizations, memberships, req,
                   loggedOut, tokenCall, services, versions>>

CleanupLoopReap_StopOnError(dbErr) ==
    /\ cleaner.pc = "Reaping"
    /\ LET res == CleanupExpired(blacklist, now, dbErr)
       IN /\ blacklist' = res.bl
          /\ cleaner' = [cleaner EXCEPT
                            !.pc = IF res.err THEN "stopped" ELSE "Idle",
                            !.lastErr = res.err]
    /\ UNCHANGED <<now, issued, organizations, memberships, req, loggedOut,
                   tokenCall, services, versions>>

CleanupLoopReap_NoCleanup(dbErr) ==
    /\ cleaner.pc = "Reaping"
    /\ cleaner' = [cleaner EXCEPT !.pc = "Idle", !.lastErr = dbErr]
    /\ UNCHANGED <<now, issued, blacklist, organizations, memberships, req,
                   loggedOut, tokenCall, services, versions>>

\* The loop body: CleanupExpired at the current clock value; an error is
\* logged and the loop goes back to its select.
CleanupLoopReap(dbErr) ==
    /\ cleaner.pc = "Reaping"
    /\ LET res == CleanupExpired(blacklist, now, dbErr)
       IN /\ blacklist' = res.bl
          /\ cleaner' = [cleaner EXCEPT !.pc = "Idle", !.lastErr = res.err]
    /\ UNCHANGED <<now, issued, organizations, memberships, req, loggedOut,
                   tokenCall, services, versions>>

\* Time passes beyond the last clock value of the model: the clock reading
\* stays, the ticker goes on.
TickPastHorizon ==
    /\ now = MaxTime
    /\ cleaner.pc # "off"
    /\ TimeMayPass
    /\ cleaner' = Elapse(cleaner)
    /\ UNCHANGED <<now, issued, blacklist, organizations, memberships, req,
                   loggedOut, tokenCall, services, versions>>

\* Clock values from t on that one more clock read may return.
ClockReads(t) == {x \in {t, t + 1} : x <= MaxTime}

\* GenerateToken(userID, email) and then ValidateToken of the result.  Each
\* of the three clock reads of GenerateToken and the one of ValidateToken
\* may see the clock advanced.
GenerateThenValidate(userID, email) ==
    /\ \E t1 \in ClockReads(now), t2 \in ClockReads(now),
          t3 \in ClockReads(now), t4 \in ClockReads(now) :
          /\ t1 <= t2 /\ t2 <= t3 /\ t3 <= t4
          /\ LET tok == GenerateToken(userID, email, t1, t2, t3)
                 ok == ValidateToken(tok, t4)
             IN tokenCall' = [userID |-> userID, email |-> email,
                              tok |-> tok, at |-> t4, valid |-> ok,
                              claims |-> IF ok THEN ParsedClaims(tok)
                                         ELSE ParsedClaims(NoToken)]
          /\ now' = t4
    /\ UNCHANGED <<issued, blacklist, organizations, memberships, req,
                   loggedOut, cleaner, services, versions>>

\* ValidateToken of the token of the last call, at the current clock value.
ValidateAgain ==
    /\ tokenCall.tok # NoToken
    /\ LET ok == ValidateToken(tokenCall.tok, now)
       IN tokenCall' = [tokenCall EXCEPT
                           !.at = now, !.valid = ok,
                           !.claims = IF ok THEN ParsedClaims(tokenCall.tok)
                                      ELSE ParsedClaims(NoToken)]
    /\ UNCHANGED <<now, issued, blacklist, organizations, memberships, req,
                   loggedOut, cleaner, services, versions>>

\* ValidateToken of the token of the last call with its signature altered.
ValidateTampered ==
    /\ tokenCall.tok # NoToken
    /\ LET bad == [tokenCall.tok EXCEPT !.sig = "bad"]
           ok == ValidateToken(bad, now)
       IN tokenCall' = [tokenCall EXCEPT
                           !.tok = bad, !.at = now, !.valid = ok,
                           !.claims = IF ok THEN ParsedClaims(bad)
                                      ELSE ParsedClaims(NoToken)]
    /\ UNCHANGED <<now, issued, blacklist, organizations, memberships, req,
                   loggedOut, cleaner, services, versions>>

\* ---------------------------------------------------------- specifications

\* Authentication and revocation: login, logout, a protected read, the
\* clock and the reaper.
Next ==
    \/ Tick
    \/ \E u \in Users : Login(u)
    \/ \E r \in Reqs : StartRequest(r, AuthRoutes)
    \/ \E r \in Reqs : AuthMiddleware(r)
    \/ \E r \in Reqs : Logout(r)
    \/ \E r \in Reqs : GetOrganizations(r)
    \/ TokenCleanupTick

Spec == Init /\ [][Next]_vars

\* Organizations behind the membership gate.  Both users have logged in at
\* clock value 0 and nobody logs out, so the blacklist stays empty.
InitOrg ==
    /\ now = 0
    /\ issued = {GenerateToken(u, UserEmail[u], 0, 0, 0) : u \in Users}
    /\ blacklist = {}
    /\ organizations = {}
    /\ memberships = {}
    /\ services = {}
    /\ versions = {}
    /\ req = [r \in Reqs |-> IdleReq]
    /\ loggedOut = {}
    /\ cleaner = CleanerOff(<<>>)
    /\ tokenCall = NoCall

NextOrg ==
    \/ Tick
    \/ \E r \in Reqs : StartRequest(r, OrgRoutes)
    \/ \E r \in Reqs : AuthMiddleware(r)
    \/ \E r \in Reqs : OrganizationAccessMiddleware(r)
    \/ \E r \in Reqs : CreateOrganization(r)
    \/ \E r \in Reqs : GetOrganization(r)
    \/ \E r \in Reqs : DeleteOrganization(r)

SpecOrg == InitOrg /\ [][NextOrg]_vars

\* TokenService on its own: tokens are generated and validated while the
\* clock runs.
Emails == {"e1", "e2"}

NextToken ==
    \/ Tick
    \/ \E u \in Users, e \in Emails : GenerateThenValidate(u, e)
    \/ ValidateAgain
    \/ ValidateTampered

SpecToken == Init /\ [][NextToken]_vars

\* The start of the reclamation loop under every value of the setting.
InitInterval ==
    /\ now = 0
    /\ issued = {}
    /\ blacklist = {}
    /\ organizations = {}
    /\ memberships = {}
    /\ services = {}
    /\ versions = {}
    /\ req = [r \in Reqs |-> IdleReq]
    /\ loggedOut = {}
    /\ cleaner \in {CleanerOff(v) : v \in EnvValues}
    /\ tokenCall = NoCall

NextInterval == StartTokenCleanup

SpecInterval == InitInterval /\ [][NextInterval]_vars

\* The reclamation loop next to logout requests.  Both users have logged in
\* at clock value 0; the setting is unset or a whole number of clock units.
CleanupEnvs == {<<>>, <<"3", "0">>}

InitCleanup ==
    /\ now = 0
    /\ issued = {GenerateToken(u, UserEmail[u], 0, 0, 0) : u \in Users}
    /\ blacklist = {}
    /\ organizations = {}
    /\ memberships = {}
    /\ services = {}
    /\ versions = {}
    /\ req = [r \in Reqs |-> IdleReq]
    /\ loggedOut = {}
    /\ cleaner \in {CleanerOff(v) : v \in CleanupEnvs}
    /\ tokenCall = NoCall

NextCleanup ==
    \/ Tick
    \/ TickPastHorizon
    \/ StartTokenCleanup
    \/ TickerFire
    \/ CleanupLoopReceive
    \/ \E dbErr \in BOOLEAN : CleanupLoopReap(dbErr)
    \/ StartRequest(1, {"logout"})
    \/ AuthMiddleware(1)
    \/ Logout(1)

SpecCleanup == InitCleanup /\ [][NextCleanup]_vars

\* The loop with its scheduling: the clock runs, the goroutine is started
\* and scheduled, the ticker fires when due, and CleanupExpired succeeds
\* again and again.
FairCleanup ==
    /\ SpecCleanup
    /\ WF_vars(Tick)
    /\ WF_vars(TickPastHorizon)
    /\ WF_vars(StartTokenCleanup)
    /\ WF_vars(TickerFire)
    /\ WF_vars(CleanupLoopReceive)
    /\ WF_vars(\E dbErr \in BOOLEAN : CleanupLoopReap(dbErr))
    /\ SF_vars(CleanupLoopReap(FALSE))

\* Versions of one service.  The first user has logged in at clock value 0,
\* created the first organization and a service in it; requests create
\* versions of a service, two at a time.
InitVersions ==
    /\ now = 0
    /\ issued = {GenerateToken("u1", UserEmail["u1"], 0, 0, 0)}
    /\ blacklist = {}
    /\ organizations = {[id |-> "o1", createdBy |-> "u1", deleted |-> FALSE]}
    /\ memberships = {[uid |-> "u1", org |-> "o1", deleted |-> FALSE]}
    /\ services = {[id |-> "s1", org |-> "o1", description |-> "d0",
                    deleted |-> FALSE]}
    /\ versions = {}
    /\ req = [r \in Reqs |-> IdleReq]
    /\ loggedOut = {}
    /\ cleaner = CleanerOff(<<>>)
    /\ tokenCall = NoCall

NextVersions ==
    \/ \E r \in Reqs : StartRequest(r, {"createVersion"})
    \/ \E r \in Reqs : AuthMiddleware(r)
    \/ \E r \in Reqs : OrganizationAccessMiddleware(r)
    \/ \E r \in Reqs : CreateServiceVersion(r)
    \/ \E r \in Reqs : CreateServiceVersionInsert(r)

SpecVersions == InitVersions /\ [][NextVersions]_vars

\* PATCH of a version.  As InitVersions, and the service has one version;
\* requests PATCH versions, two at a time.
InitPatch ==
    /\ now = 0
    /\ issued = {GenerateToken("u1", UserEmail["u1"], 0, 0, 0)}
    /\ blacklist = {}
    /\ organizations = {[id |-> "o1", createdBy |-> "u1", deleted |-> FALSE]}
    /\ memberships = {[uid |-> "u1", org |-> "o1", deleted |-> FALSE]}
    /\ services = {[id |-> "s1", org |-> "o1", description |-> "d0",
                    deleted |-> FALSE]}
    /\ versions = {[id |-> "v1", svc |-> "s1", version |-> "1.0.0",
                    description |-> "d0", releaseTimestamp |-> 0,
                    deleted |-> FALSE]}
    /\ req = [r \in Reqs |-> IdleReq]
    /\ loggedOut = {}
    /\ cleaner = CleanerOff(<<>>)
    /\ tokenCall = NoCall

NextPatch ==
    \/ \E r \in Reqs : StartRequest(r, {"updateVersion"})
    \/ \E r \in Reqs : AuthMiddleware(r)
    \/ \E r \in Reqs : OrganizationAccessMiddleware(r)
    \/ \E r \in Reqs : UpdateServiceVersion(r)
    \/ \E r \in Reqs : UpdateServiceVersionSave(r)

SpecPatch == InitPatch /\ [][NextPatch]_vars

\* Two tenants.  Each user has created an organization with one service,
\* and the first service has a version; the second user has logged in at
\* clock value 0.  One request at a time reads, updates and deletes
\* services and versions and creates versions.
IsolationRoutes == (ServiceRoutes \ {"createService"}) \cup VersionRoutes

InitIsolation ==
    /\ now = 0
    /\ issued = {GenerateToken("u2", UserEmail["u2"], 0, 0, 0)}
    /\ blacklist = {}
    /\ organizations = {[id |-> "o1", createdBy |-> "u1", deleted |-> FALSE],
                         [id |-> "o2", createdBy |-> "u2", deleted |-> FALSE]}
    /\ memberships = {[uid |-> "u1", org |-> "o1", deleted |-> FALSE],
                       [uid |-> "u2", org |-> "o2", deleted |-> FALSE]}
    /\ services = {[id |-> "s1", org |-> "o1", description |-> "d0",
                    deleted |-> FALSE],
                   [id |-> "s2", org |-> "o2", description |-> "d0",
                    deleted |-> FALSE]}
    /\ versions = {[id |-> "v1", svc |-> "s1", version |-> "1.0.0",
                    description |-> "d0", releaseTimestamp |-> 0,
                    deleted |-> FALSE]}
    /\ req = [r \in Reqs |-> IdleReq]
    /\ loggedOut = {}
    /\ cleaner = CleanerOff(<<>>)
    /\ tokenCall = NoCall

NextIsolation ==
    \/ StartRequest(1, IsolationRoutes)
    \/ AuthMiddleware(1)
    \/ OrganizationAccessMiddleware(1)
    \/ GetService(1)
    \/ UpdateService(1)
    \/ UpdateServiceSave(1)
    \/ DeleteService(1)
    \/ DeleteServiceTx(1)
    \/ CreateServiceVersion(1)
    \/ CreateServiceVersionInsert(1)
    \/ GetServiceVersions(1)
    \/ GetServiceVersion(1)
    \/ UpdateServiceVersion(1)
    \/ UpdateServiceVersionSave(1)
    \/ DeleteServiceVersion(1)
    \/ DeleteServiceVersionRow(1)

SpecIsolation == InitIsolation /\ [][NextIsolation]_vars

\* Deleting an organization next to creates in it.  The first user has
\* logged in at clock value 0 and created an organization with a service
\* that has a version; the first slot creates services and versions while
\* the second deletes the organization.
InitCascade ==
    /\ now = 0
    /\ issued = {GenerateToken("u1", UserEmail["u1"], 0, 0, 0)}
    /\ blacklist = {}
    /\ organizations = {[id |-> "o1", createdBy |-> "u1", deleted |-> FALSE]}
    /\ memberships = {[uid |-> "u1", org |-> "o1", deleted |-> FALSE]}
    /\ services = {[id |-> "s1", org |-> "o1", description |-> "d0",
                    deleted |-> FALSE]}
    /\ versions = {[id |-> "v1", svc |-> "s1", version |-> "1.0.0",
                    description |-> "d0", releaseTimestamp |-> 0,
                    deleted |-> FALSE]}
    /\ req = [r \in Reqs |-> IdleReq]
    /\ loggedOut = {}
    /\ cleaner = CleanerOff(<<>>)
    /\ tokenCall = NoCall

NextCascade ==
    \/ StartRequest(1, {"createService", "createVersion"})
    \/ StartRequest(2, {"deleteOrg"})
    \/ \E r \in Reqs : AuthMiddleware(r)
    \/ \E r \in Reqs : OrganizationAccessMiddleware(r)
    \/ CreateService(1)
    \/ CreateServiceInsert(1)
    \/ CreateServiceVersion(1)
    \/ CreateServiceVersionInsert(1)
    \/ DeleteOrganization(2)

SpecCascade == InitCascade /\ [][NextCascade]_vars

\* The handler chain of org-scoped routes next to logouts.  Both users have
\* logged in at clock value 0; the first has created an organization with
\* a service that has a version.  One request at a time logs out or
\* addresses the organization, its services or their versions.
ChainRoutes ==
    {"logout", "getOrg", "deleteOrg", "getService", "createVersion"}

InitChain ==
    /\ now = 0
    /\ issued = {GenerateToken(u, UserEmail[u], 0, 0, 0) : u \in Users}
    /\ blacklist = {}
    /\ organizations = {[id |-> "o1", createdBy |-> "u1", deleted |-> FALSE]}
    /\ memberships = {[uid |-> "u1", org |-> "o1", deleted |-> FALSE]}
    /\ services = {[id |-> "s1", org |-> "o1", description |-> "d0",
                    deleted |-> FALSE]}
    /\ versions = {[id |-> "v1", svc |-> "s1", version |-> "1.0.0",
                    description |-> "d0", releaseTimestamp |-> 0,
                    deleted |-> FALSE]}
    /\ req = [r \in Reqs |-> IdleReq]
    /\ loggedOut = {}
    /\ cleaner = CleanerOff(<<>>)
    /\ tokenCall = NoCall

NextChain ==
    \/ StartRequest(1, ChainRoutes)
    \/ AuthMiddleware(1)
    \/ OrganizationAccessMiddleware(1)
    \/ Logout(1)
    \/ GetOrganization(1)
    \/ DeleteOrganization(1)
    \/ GetService(1)
    \/ CreateServiceVersion(1)
    \/ CreateServiceVersionInsert(1)

SpecChain == InitChain /\ [][NextChain]_vars

\* ------------------------------------------------------------------ claims

\* The request of slot r got past AuthMiddleware.
Admitted(r) ==
    \/ req[r].pc \in {"gate", "handler"}
    \/ req[r].ran
    \/ req[r].gate # "none"

\* The revocation lookup as a client would see it answered, without a
\* datastore error, in the current state.
Listed(tok) == IsBlacklisted(blacklist, HashToken(tok), now, FALSE)

\* The step finishes the logout controller of slot r.
LogoutStep(r) ==
    /\ req[r].pc = "handler"
    /\ req[r].route = "logout"
    /\ req'[r].pc = "done"

\* C1: a request that presents a token after a logout with that token
\* returned success, and whose revocation lookup met no datastore error, is
\* answered 401 and never reaches its controller.
C1_RevokedTokenRejected ==
    \A r \in Reqs :
        (req[r].afterLogout /\ ~req[r].lookupErr) =>
            /\ ~Admitted(r)
            /\ req[r].pc = "done" => req[r].status = StatusUnauthorized

\* C2: a logout changes the revocation lookup of no token but the one it
\* presents, adds no row under another fingerprint, and leaves the other
\* requests untouched.
C2_LogoutRevokesOnlyItsToken ==
    [][\A r \in Reqs :
          LogoutStep(r) =>
              /\ \A t \in (issued \cup {ForgedToken}) \ {req[r].tok} :
                    IsBlacklisted(blacklist', HashToken(t), now', FALSE)
                        = IsBlacklisted(blacklist, HashToken(t), now, FALSE)
              /\ \A row \in blacklist' \ blacklist :
                    row.hash = HashToken(req[r].tok)
              /\ \A r2 \in Reqs \ {r} : req'[r2] = req[r2]]_vars

\* C2 witness: one of two tokens of the same user has been logged out and
\* is listed, the other is not.
C2_Witness ==
    \E t1 \in loggedOut, t2 \in issued \ loggedOut :
        /\ t1.uid = t2.uid
        /\ Listed(t1)
        /\ ~Listed(t2)

\* C3 as stated: right after a row is inserted, the lookup of its
\* fingerprint answers true, whatever the expiry.
C3_ListedAfterRecord ==
    [][\A row \in blacklist' \ blacklist :
          IsBlacklisted(blacklist', row.hash, now', FALSE)]_vars

\* C3 amended: right after a row is inserted, the lookup of its fingerprint
\* answers true exactly when the row's expiry is later than the clock; and
\* the lookup answers false for every token that no logout has recorded.
C3_ListedAfterRecordUnlessExpired ==
    /\ [][\A row \in blacklist' \ blacklist :
             IsBlacklisted(blacklist', row.hash, now', FALSE)
                 <=> (row.exp > now')]_vars
    /\ [](\A t \in (issued \cup {ForgedToken}) \ loggedOut : ~Listed(t))

\* C3 witness: a logout has recorded a token that is now listed.
C3_Witness ==
    \E t \in loggedOut :
        /\ \E row \in blacklist : row.hash = HashToken(t) /\ row.exp = t.exp
        /\ Listed(t)
        /\ \E t2 \in issued \ loggedOut : ~Listed(t2)

\* The step is a reap that met no datastore error (or one that had nothing
\* to delete).
ReapStep ==
    /\ blacklist' = CleanupExpired(blacklist, now, FALSE).bl
    /\ UNCHANGED <<now, issued, organizations, memberships, req, loggedOut,
                   cleaner, tokenCall, services, versions>>

\* C4: a reap that runs when the clock is past a row's expiry removes the
\* row, and the lookup of its fingerprint then answers false.
C4_ReapedAfterExpiry ==
    [][ReapStep =>
          \A row \in blacklist :
              row.exp < now =>
                  /\ row \notin blacklist'
                  /\ ~IsBlacklisted(blacklist', row.hash, now', FALSE)]_vars

\* C4 witness: a token was recorded by a logout, its expiry has passed, and
\* its row is gone (only the reaper deletes rows).
C4_Witness ==
    \E t \in loggedOut :
        /\ t.exp < now
        /\ ~\E row \in blacklist : row.hash = HashToken(t)

\* C5: the lookup answers false on a datastore error, and a request whose
\* token validated and whose lookup failed is admitted.
C5_LookupFailsOpen ==
    /\ \A t \in issued : ~IsBlacklisted(blacklist, HashToken(t), now, TRUE)
    /\ \A r \in Reqs : req[r].lookupErr => Admitted(r)

\* C5 witness: a request stands before its controller after a failed lookup
\* although its token was logged out before and is still listed.
C5_Witness ==
    \E r \in Reqs :
        /\ req[r].pc = "handler"
        /\ req[r].lookupErr
        /\ req[r].afterLogout
        /\ Listed(req[r].tok)

\* C10: a logout request presenting a token that already has a successful
\* logout returns 204 like the first one.
C10_SecondLogoutSucceeds ==
    [][\A r \in Reqs :
          (/\ req[r].route = "logout"
           /\ req[r].pc \in {"auth", "handler"}
           /\ req[r].tok \in loggedOut
           /\ req'[r].pc = "done")
          => req'[r].status = StatusNoContent]_vars

\* The gate's membership query of slot r met a datastore error.
GateErred(r) == req[r].gate \in {"err_member", "err_nonmember"}

\* C6: a request whose membership query failed is answered 500 and its
\* controller is not invoked, member or not.
C6_GateFailsClosed ==
    \A r \in Reqs :
        GateErred(r) =>
            /\ req[r].pc = "done"
            /\ req[r].status = StatusInternalServerError
            /\ req[r].msg = MsgAccessCheckFailed
            /\ ~req[r].ran

\* C6 witness: the query failed for a member and for a non-member, and both
\* were answered 500.
C6_Witness ==
    \E r1 \in Reqs, r2 \in Reqs :
        /\ req[r1].gate = "err_member"
        /\ req[r2].gate = "err_nonmember"
        /\ req[r1].status = StatusInternalServerError
        /\ req[r2].status = StatusInternalServerError

\* C7: a request whose membership query found no row is answered 403 with
\* the one message and its controller is not invoked; any two such requests
\* got the same answer, whether or not their organization existed.
C7_NonMemberForbidden ==
    /\ \A r \in Reqs :
          req[r].gate = "nonmember" =>
              /\ req[r].pc = "done"
              /\ req[r].status = StatusForbidden
              /\ req[r].msg = MsgNotAuthorized
              /\ ~req[r].ran
    /\ \A r1 \in Reqs, r2 \in Reqs :
          (req[r1].gate = "nonmember" /\ req[r2].gate = "nonmember") =>
              /\ req[r1].status = req[r2].status
              /\ req[r1].msg = req[r2].msg

\* C7 witness: two non-members have been answered, one asked for a live
\* organization and one for an id that names none.
C7_Witness ==
    \E r1 \in Reqs, r2 \in Reqs :
        /\ req[r1].gate = "nonmember"
        /\ req[r2].gate = "nonmember"
        /\ req[r1].orgExisted
        /\ ~req[r2].orgExisted
        /\ req[r1].status = StatusForbidden
        /\ req[r2].status = StatusForbidden

MemberKeys(mems) == {<<m.uid, m.org>> : m \in mems}

\* The step finishes the create-organization controller of slot r.
CreateOrgStep(r) ==
    /\ req[r].pc = "handler"
    /\ req[r].route = "createOrg"
    /\ req'[r].pc = "done"

\* C8: in the state right after an organization row appears, the membership
\* query for its creator answers (true, nil); the query answers (false, nil)
\* for every user and organization id the user did not create; and a
\* membership row appears only in a create-organization step, for the
\* creator and the new organization.
C8_CreatorEnrolled ==
    /\ [][\A o \in organizations' :
             (o.id \notin {x.id : x \in organizations}) =>
                 IsUserMember(memberships', o.id, o.createdBy, FALSE)
                     = [isMember |-> TRUE, err |-> FALSE]]_vars
    /\ [](\A u \in Users, id \in OrgIds :
             (~\E o \in organizations : o.id = id /\ o.createdBy = u) =>
                 IsUserMember(memberships, id, u, FALSE)
                     = [isMember |-> FALSE, err |-> FALSE])
    /\ [][\A k \in MemberKeys(memberships') \ MemberKeys(memberships) :
             \E r \in Reqs :
                 /\ CreateOrgStep(r)
                 /\ req'[r].status = StatusCreated
                 /\ k = <<req[r].user, NewOrgId>>]_vars

\* C8 witness: a live organization whose creator is a member and whose
\* other user is not.
C8_Witness ==
    \E o \in organizations, u \in Users :
        /\ ~o.deleted
        /\ u # o.createdBy
        /\ IsUserMember(memberships, o.id, o.createdBy, FALSE).isMember
        /\ ~IsUserMember(memberships, o.id, u, FALSE).isMember

\* C9: once an organization is deleted the membership query answers false
\* for every user; a request of its creator that began after the deletion
\* never passes the gate nor reaches a controller, and is answered 403 when
\* its membership query completes.
C9_DeleteRemovesMembership ==
    /\ \A o \in organizations :
          o.deleted =>
              \A u \in Users :
                  ~IsUserMember(memberships, o.id, u, FALSE).isMember
    /\ \A r \in Reqs :
          req[r].afterDelete =>
              /\ req[r].pc # "handler"
              /\ ~req[r].ran
              /\ req[r].gate \in {"none", "nonmember", "err_nonmember"}
              /\ req[r].gate = "nonmember" =>
                    /\ req[r].status = StatusForbidden
                    /\ req[r].msg = MsgNotAuthorized

\* C9 witness: the creator asked for the deleted organization and was
\* answered 403 by the gate.
C9_Witness ==
    \E r \in Reqs :
        /\ req[r].afterDelete
        /\ req[r].pc = "done"
        /\ req[r].gate = "nonmember"
        /\ req[r].status = StatusForbidden

\* C11: the blacklist never holds two rows with one fingerprint, and a
\* logout whose insert is rejected because the fingerprint is stored is
\* answered 500 and leaves the blacklist, the stored row included, as it was.
C11_OneRecordPerFingerprint ==
    /\ [](\A row1 \in blacklist, row2 \in blacklist :
             row1.hash = row2.hash => row1 = row2)
    /\ [][\A r \in Reqs :
             (LogoutStep(r) /\ req'[r].dupInsert) =>
                 /\ blacklist' = blacklist
                 /\ req'[r].status = StatusInternalServerError]_vars

\* C11 witness: two logout requests passed AuthMiddleware before either
\* inserted; one inserted the row, the other's insert was rejected, and one
\* row is stored.
C11_Witness ==
    \E r1 \in Reqs, r2 \in Reqs :
        /\ req[r1].route = "logout"
        /\ req[r1].status = StatusNoContent
        /\ req[r2].dupInsert
        /\ ~req[r2].afterLogout
        /\ ~req[r2].lookupErr
        /\ Cardinality(blacklist) = 1
        /\ Cardinality(loggedOut) = 1

\* C12: a logout request that carries a correctly signed token whose expiry
\* has passed gets through AuthMiddleware to the logout controller.
C12_ExpiredTokenReachesLogout ==
    [][\A r \in Reqs :
          (/\ req[r].pc = "auth"
           /\ req[r].route = "logout"
           /\ req[r].tok.sig = "ok"
           /\ now >= req[r].tok.exp
           /\ req'[r] # req[r])
          => req'[r].pc = "handler"]_vars

\* C13: every generated token has expires-at equal to issued-at plus the
\* token lifetime, and not-before equal to issued-at.
C13_ExpiryIsIssuedAtPlusTTL ==
    tokenCall.tok # NoToken =>
        /\ tokenCall.tok.exp = tokenCall.tok.iat + TokenTTL
        /\ tokenCall.tok.nbf = tokenCall.tok.iat

\* C14: a generated token validates at every clock value before its
\* expires-at and is rejected at every clock value after it; once it has
\* been rejected at or after its expires-at, no later validation of it
\* succeeds.
C14_ValidUntilExpiry ==
    /\ [](tokenCall.tok.sig = "ok" =>
             /\ tokenCall.at < tokenCall.tok.exp => tokenCall.valid
             /\ tokenCall.at > tokenCall.tok.exp => ~tokenCall.valid)
    /\ [][(/\ tokenCall.tok.sig = "ok"
           /\ ~tokenCall.valid
           /\ tokenCall.at >= tokenCall.tok.exp
           /\ tokenCall'.tok = tokenCall.tok)
          => ~tokenCall'.valid]_vars

\* C14 witness: a generated token, accepted when it was made, has been
\* validated again after its expires-at and rejected.
C14_Witness ==
    /\ tokenCall.tok.sig = "ok"
    /\ tokenCall.at > tokenCall.tok.exp
    /\ ~tokenCall.valid

\* C15: a token validated right after it was generated is accepted and the
\* claims handed back carry the user id and the email it was generated
\* for; a token whose signature does not verify is rejected.
C15_RoundTrip ==
    /\ [][\A u \in Users, e \in Emails :
             GenerateThenValidate(u, e) =>
                 /\ tokenCall'.valid
                 /\ tokenCall'.claims = [UserID |-> u, Email |-> e]]_vars
    /\ [](tokenCall.valid =>
             tokenCall.claims = [UserID |-> tokenCall.userID,
                                 Email |-> tokenCall.email])
    /\ [](tokenCall.tok.sig # "ok" => ~tokenCall.valid)

\* C15 witness: a token generated for a user id with the email of another
\* user was accepted and handed back both.
C15_Witness ==
    /\ tokenCall.valid
    /\ tokenCall.userID = "u1"
    /\ tokenCall.email = "e2"
    /\ tokenCall.claims = [UserID |-> "u1", Email |-> "e2"]

\* C16: once the loop has started, its interval is the configured number of
\* minutes when the setting is a positive integer and 60 minutes otherwise
\* (unset, zero, negative, not a number).
C16_IntervalDefaultsToSixty ==
    cleaner.pc # "off" =>
        LET parsed == Atoi(cleaner.env)
        IN cleaner.minutes =
               IF ~parsed.err /\ parsed.n > 0 THEN parsed.n ELSE 60

\* C17: the loop starts in Idle with no tick pending and its first tick one
\* interval away, and starting it deletes nothing; no tick is fired and no
\* Reap runs before one full interval has passed since the start; and the
\* loop only moves from Idle to Reaping and from Reaping to Idle.
C17_FirstReapAfterOneInterval ==
    /\ [][(cleaner.pc = "off" /\ cleaner'.pc # "off") =>
             /\ cleaner'.pc = "Idle"
             /\ cleaner'.ch = 0
             /\ cleaner'.wait = IntervalUnits(cleaner'.minutes)
             /\ cleaner'.wait >= 1
             /\ blacklist' = blacklist]_vars
    /\ []((cleaner.pc = "Reaping" \/ cleaner.ch = 1 \/ cleaner.unserved > 0)
             => cleaner.age >= IntervalUnits(cleaner.minutes))
    /\ [][cleaner'.pc # cleaner.pc =>
             <<cleaner.pc, cleaner'.pc>> \in
                 {<<"off", "Idle">>, <<"Idle", "Reaping">>,
                  <<"Reaping", "Idle">>}]_vars

\* C17 witness: with the setting unset, a Reap is running after the 60
\* minutes of the interval have passed.
C17_Witness ==
    /\ cleaner.pc = "Reaping"
    /\ cleaner.env = <<>>
    /\ cleaner.minutes = 60
    /\ cleaner.age = 2
    /\ now >= 2

\* The step starts a Reap.
ReapStarts == cleaner.pc # "Reaping" /\ cleaner'.pc = "Reaping"

\* C18 as stated: no tick is dropped, and whenever the loop is idle with no
\* tick waiting, as many Reaps have started as ticks have fired.
C18_ReapsEqualTicks ==
    /\ ~cleaner.lost
    /\ (cleaner.pc = "Idle" /\ cleaner.ch = 0) => cleaner.unserved = 0

\* C18 amended: every Reap is started by taking one tick out of ticker.C,
\* which holds one tick at most; as long as no tick has been dropped, the
\* ticks fired are the Reaps started plus the tick held in ticker.C; and a
\* tick is dropped only when it fires while ticker.C still holds the tick
\* before it.
C18_ReapPerDeliveredTick ==
    /\ [][ReapStarts => (cleaner.ch = 1 /\ cleaner'.ch = 0)]_vars
    /\ [](cleaner.ch \in {0, 1})
    /\ [](~cleaner.lost => cleaner.unserved = cleaner.ch)
    /\ [][(~cleaner.lost /\ cleaner'.lost) =>
             /\ cleaner.ch = 1
             /\ cleaner.wait = 0
             /\ cleaner'.ch = 1]_vars

\* C18 witness: a Reap outlasted two ticks, the second was dropped, and the
\* loop is idle again with no tick waiting and fewer Reaps than ticks.
C18_Witness ==
    /\ cleaner.lost
    /\ cleaner.pc = "Idle"
    /\ cleaner.ch = 0
    /\ cleaner.unserved > 0

\* C19: a Reap that returns an error puts the loop back in Idle and changes
\* neither the blacklist nor the ticker; the Reap after it starts only by
\* taking a tick from ticker.C; the loop is never anywhere but in its
\* select or its body; and after a failed Reap another Reap starts.
C19_ReapErrorKeepsLoop ==
    /\ [][(cleaner.pc = "Reaping" /\ cleaner'.pc # "Reaping"
                                  /\ cleaner'.lastErr) =>
             /\ cleaner'.pc = "Idle"
             /\ blacklist' = blacklist
             /\ cleaner'.ch = cleaner.ch
             /\ cleaner'.wait = cleaner.wait]_vars
    /\ [][(cleaner.lastErr /\ ReapStarts) =>
             (cleaner.pc = "Idle" /\ cleaner.ch = 1 /\ cleaner'.ch = 0)]_vars
    /\ [](cleaner.pc \in {"off", "Idle", "Reaping"})
    /\ ((cleaner.pc = "Idle" /\ cleaner.lastErr)
            ~> (cleaner.pc = "Reaping"))

\* C19 witness: the last Reap returned an error while an expired row was
\* stored, and the next Reap is running with the row still there.
C19_Witness ==
    /\ cleaner.lastErr
    /\ cleaner.pc = "Reaping"
    /\ \E row \in blacklist : row.exp <= now

\* The rows a logout of one of the tokens of InitCleanup can insert.
CleanupRows ==
    {[hash |-> HashToken(tok), uid |-> tok.uid, exp |-> tok.exp,
      createdAt |-> t] :
        tok \in {GenerateToken(u, UserEmail[u], 0, 0, 0) : u \in Users},
        t \in 0..MaxTime}

InitReap ==
    /\ now = 1
    /\ issued = {GenerateToken("u1", UserEmail["u1"], 0, 0, 0),
                 GenerateToken("u2", UserEmail["u2"], 1, 1, 1)}
    /\ blacklist = {}
    /\ organizations = {}
    /\ memberships = {}
    /\ services = {}
    /\ versions = {}
    /\ req = [r \in Reqs |-> IdleReq]
    /\ loggedOut = {}
    /\ cleaner = CleanerOff(<<>>)
    /\ tokenCall = NoCall

NextReap ==
    \/ Tick
    \/ StartRequest(1, {"logout"})
    \/ AuthMiddleware(1)
    \/ Logout(1)
    \/ TokenCleanupTick

SpecReap == InitReap /\ [][NextReap]_vars

\* C21: a reap that meets no datastore error removes every row whose expiry
\* is at or before the clock value and nothing else: each row that expires
\* later is still stored with the same fingerprint, user id and expiry.
C21_ReapRemovesExactlyExpired ==
    [][ReapStep =>
         /\ \A row \in blacklist : row.exp <= now => row \notin blacklist'
         /\ \A row \in blacklist :
               row.exp > now =>
                  \E kept \in blacklist' :
                     /\ kept.hash = row.hash
                     /\ kept.uid = row.uid
                     /\ kept.exp = row.exp
         /\ blacklist' \subseteq blacklist]_vars

\* Both tokens were logged out, the row of the first is gone at the very
\* instant of its expiry and the row of the second is still stored.
C21_Witness ==
    /\ \E t1 \in loggedOut :
          /\ t1.exp = now
          /\ \A row \in blacklist : row.hash # HashToken(t1)
    /\ \E t2 \in loggedOut :
          /\ t2.exp > now
          /\ \E row \in blacklist : row.hash = HashToken(t2)

\* The store after a reap at clock value t that meets no datastore error.
ReapAt(bl, t) == CleanupExpired(bl, t, FALSE).bl

\* The store after the logout of token tok recorded it at clock value t.
RecordAt(bl, tok, t) ==
    BlacklistedTokenModel_Create(bl, HashToken(tok), tok.uid, tok.exp, t,
                                 FALSE).bl

\* C22: two reaps of the stored rows, whichever of the two clock values is
\* the later one and also when they are the same, leave what one reap at
\* the later clock value leaves, remove no row that expires after it, and
\* the same holds when a logout records a token between the two reaps.
C22_ReapIdempotentCommutative ==
    \A t1, t2 \in 0..MaxTime :
       LET later == IF t1 >= t2 THEN t1 ELSE t2
           twice == ReapAt(ReapAt(blacklist, t1), t2)
       IN /\ twice = ReapAt(blacklist, later)
          /\ \A row \in blacklist : row.exp > later => row \in twice
          /\ \A tok \in issued :
                \A t \in 0..MaxTime :
                   t1 <= t /\ t <= t2 =>
                      ReapAt(RecordAt(ReapAt(blacklist, t1), tok, t), t2)
                         = ReapAt(RecordAt(blacklist, tok, t), t2)

\* Two rows are stored, one expired and one not, so that reaps at different
\* clock values remove different rows.
C22_Witness ==
    \E r1, r2 \in blacklist : r1.exp <= now /\ now < r2.exp

\* C27: the lookup counts only rows that expire after its clock value and a
\* reap deletes only rows that expire at or before its own, so the answer of
\* the lookup for any token is the same on the stored rows and on what a
\* reap at that or an earlier clock value leaves of them, and no completed
\* reap step changes the answer for any token.
C27_ReapInvisibleToLookup ==
    /\ [](\A tok \in issued \cup {ForgedToken} :
            \A tr, t \in 0..MaxTime :
               tr <= t =>
                  IsBlacklisted(ReapAt(blacklist, tr), HashToken(tok), t, FALSE)
                     = IsBlacklisted(blacklist, HashToken(tok), t, FALSE))
    /\ [][ReapStep =>
            \A tok \in issued \cup {ForgedToken} : Listed(tok)' = Listed(tok)]_vars

\* A reap has removed the row of one logged-out token after its expiry while
\* the expired row of another is still stored, and neither token is listed.
C27_Witness ==
    \E t1, t2 \in loggedOut :
       /\ t1.exp < now
       /\ \A row \in blacklist : row.hash # HashToken(t1)
       /\ t2.exp <= now
       /\ \E row \in blacklist : row.hash = HashToken(t2)
       /\ ~Listed(t1)
       /\ ~Listed(t2)

\* The response of slot r in record q is the refusal AuthMiddleware gives.
Refused(q) ==
    /\ q.pc = "done"
    /\ q.status = StatusUnauthorized
    /\ q.msg = MsgInvalidToken

\* C23: whenever AuthMiddleware handles a presented token that is expired,
\* carries a bad signature or is found listed by the lookup, it ends the
\* request with status 401 and the message "Invalid token", and every
\* refusal of a presented token is that same response.
C23_RefusalHidesCause ==
    [][\A r \in Reqs :
          LET q == req[r]
              listed == /\ IsBlacklisted(blacklist, HashToken(q.tok), now',
                                         FALSE)
                        /\ ~req'[r].lookupErr
          IN (q.pc = "auth" /\ req'[r].pc # "auth" /\ q.tok # NoToken) =>
                /\ (q.tok.sig # "ok" \/ now >= q.tok.exp \/ listed)
                      => Refused(req'[r])
                /\ req'[r].pc = "done" => Refused(req'[r])]_vars

\* A logged-out token was presented again before any token expired and was
\* refused with the generic response.
C23_Witness ==
    /\ Refused(req[1])
    /\ req[1].afterLogout
    /\ ~req[1].lookupErr
    /\ \A tok \in issued : now < tok.exp

\* C30: creating an organization is all-or-nothing.  A create-organization
\* request that reports failure stores no row; one that reports success has
\* stored the organization row and its creator's membership row; and no
\* state holds a live organization without a live membership row of its
\* creator.
C30_CreateAllOrNothing ==
    /\ [][\A r \in Reqs :
             CreateOrgStep(r) =>
                IF req'[r].status = StatusCreated
                THEN /\ \E o \in organizations' \ organizations :
                           /\ o.createdBy = req[r].user
                           /\ ~o.deleted
                           /\ \E m \in memberships' \ memberships :
                                 /\ m.org = o.id
                                 /\ m.uid = o.createdBy
                                 /\ ~m.deleted
                ELSE /\ organizations' = organizations
                     /\ memberships' = memberships]_vars
    /\ [](\A o \in organizations :
             ~o.deleted =>
                \E m \in memberships :
                   m.org = o.id /\ m.uid = o.createdBy /\ ~m.deleted)

\* The step finishes the insert of the create-version controller of slot r.
CreateVersionStep(r) ==
    /\ req[r].pc = "write"
    /\ req[r].route = "createVersion"
    /\ req'[r].pc = "done"

\* C25: no two version rows carry the same service id and version string,
\* and a create-version request whose insert meets a stored row with its
\* service id and version string is answered 500 and stores nothing.
C25_VersionUniquePerService ==
    /\ [](\A v1 \in versions, v2 \in versions :
             (v1.svc = v2.svc /\ v1.version = v2.version) => v1 = v2)
    /\ [][\A r \in Reqs :
             (/\ CreateVersionStep(r)
              /\ \E v \in versions :
                    v.svc = req[r].svc /\ v.version = req[r].form.version) =>
                 /\ versions' = versions
                 /\ req'[r].status = StatusInternalServerError
                 /\ req'[r].msg = MsgCreateVersionFailed]_vars

\* Two requests created the same version string of one service; one got
\* 200 and its row is the only one, the other met that row and got 500.
C25_Witness ==
    \E r1 \in Reqs, r2 \in Reqs :
        /\ req[r1].route = "createVersion"
        /\ req[r1].status = StatusOK
        /\ req[r2].dupInsert
        /\ req[r2].status = StatusInternalServerError
        /\ Cardinality(versions) = 1

\* The step finishes the Save of the update-version controller of slot r
\* with a success response.
UpdateVersionStep(r) ==
    /\ req[r].pc = "write"
    /\ req[r].route = "updateVersion"
    /\ req'[r].pc = "done"
    /\ req'[r].status = StatusOK

\* The stored version row with this id.
VersionRow(vers, id) == CHOOSE v \in vers : v.id = id

\* After a successful PATCH the row keeps its version string, service id
\* and record id.
IdentityKept(r) ==
    /\ \E v \in versions' : v.id = req[r].ver
    /\ VersionRow(versions', req[r].ver).version
          = VersionRow(versions, req[r].ver).version
    /\ VersionRow(versions', req[r].ver).svc
          = VersionRow(versions, req[r].ver).svc

\* C26: a successful PATCH of a version leaves the row's version string,
\* service id and record id as they were, leaves every field the request
\* did not supply as it was, and leaves every other row as it was.
C26_PatchChangesOnlySupplied ==
    [][\A r \in Reqs :
          UpdateVersionStep(r) =>
             LET before == VersionRow(versions, req[r].ver)
                 after == VersionRow(versions', req[r].ver)
                 f == req[r].form
             IN /\ IdentityKept(r)
                /\ f.description = "" =>
                      after.description = before.description
                /\ f.releaseTimestamp = NoTime =>
                      after.releaseTimestamp = before.releaseTimestamp
                /\ versions' \ {after} = versions \ {before}]_vars

\* The messages of a 500 that reports a failed query of a handler's reads.
QueryFailedMsgs ==
    {MsgAccessCheckFailed, MsgGetServiceFailed, MsgGetVersionsFailed,
     MsgGetVersionFailed}

\* C28: a request that names a service of another organization than the
\* one in its path, sent by a member of the path's organization who is not
\* a member of the service's, never reaches a write; once its controller
\* has run it is answered 404 (500 when a query of the controller failed);
\* and no step of such a request changes a service or a version row.
C28_TenantIsolation ==
    /\ [](\A r \in Reqs :
             req[r].foreign =>
                /\ req[r].pc # "write"
                /\ (req[r].pc = "done" /\ req[r].ran) =>
                      \/ req[r].status = StatusNotFound
                      \/ /\ req[r].status = StatusInternalServerError
                         /\ req[r].msg \in QueryFailedMsgs)
    /\ [][\A r \in Reqs :
             (req[r].foreign /\ req'[r] # req[r] /\ req[r].pc # "done") =>
                 /\ services' = services
                 /\ versions' = versions]_vars

\* A member of the second organization addressed the first organization's
\* service through the second organization's path to delete it, and was
\* answered 404 with the service and its version still stored.
C28_Witness ==
    /\ req[1].foreign
    /\ req[1].ran
    /\ req[1].route = "deleteService"
    /\ req[1].status = StatusNotFound
    /\ \E sv \in services : sv.id = "s1" /\ ~sv.deleted
    /\ \E v \in versions : v.svc = "s1" /\ ~v.deleted

\* C29: in every state, an organization whose delete has committed has no
\* live service, and no live version belongs to a service of it.
C29_DeleteCascadesCompletely ==
    \A o \in organizations :
       o.deleted =>
          /\ \A sv \in services : sv.org = o.id => sv.deleted
          /\ \A v \in versions :
                ~v.deleted =>
                   ~\E sv \in services : sv.id = v.svc /\ sv.org = o.id

\* The request of slot r enters the membership gate in this step.
EntersGate(r) == req[r].pc # "gate" /\ req'[r].pc = "gate"

\* The request of slot r, on an org-scoped route, enters its controller in
\* this step.
EntersHandler(r) ==
    /\ req[r].pc # "handler"
    /\ req'[r].pc = "handler"
    /\ req'[r].route \in OrgScoped

\* A request on an org-scoped route enters its controller only from the
\* gate, in a step in which a membership row of its user and organization
\* is stored, and enters the gate only from AuthMiddleware; a controller
\* that has run was preceded by a gate that found the membership.
GateBeforeHandler ==
    /\ [][\A r \in Reqs :
             EntersHandler(r) =>
                /\ req[r].pc = "gate"
                /\ IsUserMember(memberships, req[r].org, req[r].user,
                                FALSE).isMember]_vars
    /\ [][\A r \in Reqs : EntersGate(r) => req[r].pc = "auth"]_vars
    /\ [](\A r \in Reqs :
             (req[r].ran /\ req[r].route \in OrgScoped) =>
                 req[r].gate = "member")

\* C24 as stated: a request on an org-scoped route reaches its controller
\* only through AuthMiddleware and then the gate, with a token that
\* validated and is not listed as revoked and a membership row stored when
\* the gate ran.
C24_ChainOnlyUnlisted ==
    /\ GateBeforeHandler
    /\ [][\A r \in Reqs :
             EntersGate(r) =>
                /\ ValidateToken(req[r].tok, now)
                /\ ~IsBlacklisted(blacklist, HashToken(req[r].tok), now',
                                  FALSE)]_vars

\* C24 amended: as above, with "not listed" being the answer of the
\* revocation lookup, which is also its answer when its query fails.
C24_ChainOnlyIfLookupClears ==
    /\ GateBeforeHandler
    /\ [][\A r \in Reqs :
             EntersGate(r) =>
                /\ ValidateToken(req[r].tok, now)
                /\ \/ req'[r].lookupErr
                   \/ ~IsBlacklisted(blacklist, HashToken(req[r].tok), now',
                                     FALSE)]_vars

\* The controller of an org-scoped route has run for a member whose lookup
\* completed, after some token had been logged out.
C24_Witness ==
    /\ req[1].ran
    /\ req[1].route \in OrgScoped
    /\ req[1].gate = "member"
    /\ ~req[1].lookupErr
    /\ ~req[1].afterLogout
    /\ loggedOut # {}

====
